---------------------------- MODULE Spec2Model ----------------------------
(***************************************************************************)
(* State-machine model of CorrectTimingStrategy                            *)
(* (src/correct_timing_backtest.py): the breakout back-test that executes  *)
(* an entry at the open of the bar after the signal and a stop-loss inside *)
(* the bar that breaches it.  Spec is a run of run_correct_timing_backtest. *)
(* PineSpec is a run of backtest_pine_script (src/pine_script_backtest.py),*)
(* the same strategy written as one function, over the same kind of frame. *)
(* ExactSpec is a run of ExactPineScriptStrategy.run_exact_backtest        *)
(* (src/exact_pine_script_implementation.py).  TwinSpec interleaves the    *)
(* runs of two CorrectTimingStrategy instances, PriceSpec is a run over    *)
(* frames that hold a bar with prices below zero, and ConfigSpec is        *)
(* load_data and the run under a lookback_period or atr_period that is not *)
(* positive.  ServiceSpec is a call of BacktestService.run_backtest        *)
(* (src/btc-strategy-web/backend/app/services/backtest_service.py), which  *)
(* configures an ExactPineScriptStrategy from a parameters dict, runs it   *)
(* and returns the result.                                                 *)
(*                                                                         *)
(* Numbers.  The program computes in floating point.  The model computes   *)
(* in exact rational arithmetic: a number is a pair <<n, d>> in lowest     *)
(* terms with d > 0, and NaN is the pair <<0, 0>>.  TLC's integers have 32 *)
(* bits, so the run is checked for a configuration whose fractions stay    *)
(* small: qty_value = 50 (percent) and commission_rate = 1/5 stand for the *)
(* 99 and 0.001 that __init__ assigns; range_mult, stop_loss_mult and      *)
(* initial_capital are the values of __init__.  lookback_period and        *)
(* atr_period are scaled down with the length of the price series.         *)
(*                                                                         *)
(* Input.  The data frame is revealed bar by bar: every column load_data   *)
(* computes for row i (rolling windows shifted by one, the exponential     *)
(* average) reads rows 0..i only, so the rows after i do not influence the *)
(* processing of row i.  df holds the rows iterated so far; the loop may   *)
(* end after any row, which makes that row the last one of the frame.      *)
(***************************************************************************)
EXTENDS Integers, Sequences, FiniteSets, TLC

VARIABLES df, pc,
          position_size, position_avg_price, equity, trade_id,
          pending_signal, daily_log, trade_log,
          action, exec_price, stop_hit, signal,
          trades, pending_stop_price, pending_stop_type,
          pending_long_signal, pending_short_signal,
          config, runs, daily_data, current_bar_close,
          parameters, strategy, result

\* The locals that only backtest_pine_script (src/pine_script_backtest.py)
\* has; a CorrectTimingStrategy run leaves them alone.
pine_vars == <<trades, pending_stop_price, pending_stop_type,
               pending_long_signal, pending_short_signal>>

\* The attributes and locals that only run_correct_timing_backtest has.
timing_vars == <<trade_id, pending_signal, daily_log, trade_log,
                 action, exec_price, stop_hit, signal>>

\* The attributes that only ExactPineScriptStrategy
\* (src/exact_pine_script_implementation.py) has.
exact_vars == <<daily_data, current_bar_close, parameters, strategy, result>>

vars == <<df, pc, position_size, position_avg_price, equity, trade_id,
          pending_signal, daily_log, trade_log,
          action, exec_price, stop_hit, signal,
          trades, pending_stop_price, pending_stop_type,
          pending_long_signal, pending_short_signal,
          config, runs, daily_data, current_bar_close,
          parameters, strategy, result>>

(***************************************************************************)
(* Bounds of the model.                                                    *)
(***************************************************************************)
MaxBars == 5
lookback_period == 2
atr_period == 3

(***************************************************************************)
(* Exact rational arithmetic standing for the program's float arithmetic.  *)
(***************************************************************************)
Abs(x) == IF x < 0 THEN -x ELSE x

RECURSIVE Gcd(_, _)
Gcd(a, b) == IF b = 0 THEN a ELSE Gcd(b, a % b)

Rat(n, d) ==
    LET g == Gcd(Abs(n), Abs(d))
        s == IF d < 0 THEN -1 ELSE 1
    IN  <<(s * n) \div g, (s * d) \div g>>

R(n) == <<n, 1>>
Zero == <<0, 1>>
NaN == <<0, 0>>
isna(x) == x[2] = 0

RNeg(a) == <<-a[1], a[2]>>
RAbs(a) == <<Abs(a[1]), a[2]>>

RAdd(a, b) ==
    LET g == Gcd(a[2], b[2])
    IN  Rat(a[1] * (b[2] \div g) + b[1] * (a[2] \div g), (a[2] \div g) * b[2])

RSub(a, b) == RAdd(a, RNeg(b))

RMul(a, b) ==
    LET g1 == Gcd(Abs(a[1]), b[2])
        g2 == Gcd(Abs(b[1]), a[2])
    IN  Rat((a[1] \div g1) * (b[1] \div g2), (a[2] \div g2) * (b[2] \div g1))

RDiv(a, b) == RMul(a, IF b[1] < 0 THEN <<-b[2], -b[1]>> ELSE <<b[2], b[1]>>)

RLt(a, b) ==
    LET g == Gcd(a[2], b[2])
    IN  a[1] * (b[2] \div g) < b[1] * (a[2] \div g)

RLe(a, b) == RLt(a, b) \/ a = b
RGt(a, b) == RLt(b, a)
RGe(a, b) == RLe(b, a)
RMax(a, b) == IF RLt(a, b) THEN b ELSE a
RMin(a, b) == IF RLt(b, a) THEN b ELSE a

(***************************************************************************)
(* __init__: the configuration.                                            *)
(***************************************************************************)
range_mult == Rat(1, 2)
stop_loss_mult == Rat(5, 2)
initial_capital == R(100000)
commission_rate == Rat(1, 5)
qty_value == R(50)

\* The attributes ExactPineScriptStrategy.__init__ gives a new strategy
\* (src/exact_pine_script_implementation.py); lookback_period and atr_period
\* stand at their model bounds for 20 and 14.
ExactPineScriptStrategy ==
    [lookback_period |-> lookback_period,
     range_mult |-> range_mult,
     stop_loss_mult |-> stop_loss_mult,
     atr_period |-> atr_period]

\* A parameters dict with no key: every key maps to <<>>, a present key to
\* the one-element sequence of its value.
no_parameters ==
    [lookback_period |-> <<>>, range_mult |-> <<>>,
     stop_loss_mult |-> <<>>, atr_period |-> <<>>]

(***************************************************************************)
(* The bars a row of the CSV may hold: open, high, low, close.             *)
(***************************************************************************)
Bar(o, h, l, c) == [open |-> R(o), high |-> R(h), low |-> R(l), close |-> R(c)]

Bars == { Bar(4, 4, 4, 4),     \* flat
          Bar(4, 5, 4, 4),     \* upper wick
          Bar(4, 4, 3, 4),     \* lower wick
          Bar(4, 5, 3, 4),     \* both wicks
          Bar(4, 9, 4, 9),     \* spike
          Bar(1, 1, 1, 1) }    \* gap down, flat

\* Row with 0-based index k of the frame.
Row(k) == df[k + 1]
\* Index of the row the loop is processing.
i == Len(df) - 1

(***************************************************************************)
(* calculate_atr and the columns load_data adds, for row k.                *)
(***************************************************************************)
true_range(k) ==
    LET tr1 == RSub(Row(k).high, Row(k).low)
    IN  IF k = 0 THEN tr1
        ELSE LET close_prev == Row(k - 1).close
                 tr2 == RAbs(RSub(Row(k).high, close_prev))
                 tr3 == RAbs(RSub(Row(k).low, close_prev))
             IN  RMax(RMax(tr1, tr2), tr3)

RECURSIVE calculate_atr(_)
calculate_atr(k) ==
    LET alpha == Rat(1, config.atr_period)
    IN  IF k = 0 THEN true_range(0)
        ELSE RAdd(RMul(RSub(R(1), alpha), calculate_atr(k - 1)),
                  RMul(alpha, true_range(k)))

\* The maximum of high and the minimum of low over the n rows that end with
\* row k (over the rows 0..k when the frame has fewer).
RECURSIVE RollMax(_, _)
RollMax(k, n) ==
    IF n = 1 \/ k = 0 THEN Row(k).high
    ELSE RMax(Row(k).high, RollMax(k - 1, n - 1))

RECURSIVE RollMin(_, _)
RollMin(k, n) ==
    IF n = 1 \/ k = 0 THEN Row(k).low
    ELSE RMin(Row(k).low, RollMin(k - 1, n - 1))

\* rolling(window=self.lookback_period) followed by shift(1) is defined on
\* row k: the window needs lookback_period rows before row k, and a window
\* of no rows is defined on no row.
\* (Faulty variant: a window that accepts a single row, min_periods=1.)
rolling_defined_min_periods_1(k) == k >= 1
rolling_defined(k) ==
    config.lookback_period >= 1 /\ k >= config.lookback_period

\* (Faulty variant: the window taken without shift(1), so that it ends with
\* row k itself.)
highest_high_unshifted(k) ==
    IF rolling_defined(k) THEN RollMax(k, config.lookback_period) ELSE NaN
highest_high(k) ==
    IF rolling_defined(k) THEN RollMax(k - 1, config.lookback_period) ELSE NaN

lowest_low(k) ==
    IF rolling_defined(k) THEN RollMin(k - 1, config.lookback_period) ELSE NaN

breakout_range(k) ==
    IF isna(highest_high(k)) \/ isna(lowest_low(k)) THEN NaN
    ELSE RSub(highest_high(k), lowest_low(k))

upper_boundary(k) ==
    IF isna(breakout_range(k)) THEN NaN
    ELSE RAdd(Row(k).open, RMul(breakout_range(k), range_mult))

lower_boundary(k) ==
    IF isna(breakout_range(k)) THEN NaN
    ELSE RSub(Row(k).open, RMul(breakout_range(k), range_mult))

\* (Faulty variant: a breakout that also fires when high touches the boundary.)
go_long_not_strict(k) ==
    IF isna(upper_boundary(k)) THEN FALSE
    ELSE RGe(Row(k).high, upper_boundary(k))
go_long(k) ==
    IF isna(upper_boundary(k)) THEN FALSE
    ELSE RGt(Row(k).high, upper_boundary(k))

go_short(k) ==
    IF isna(lower_boundary(k)) THEN FALSE
    ELSE RLt(Row(k).low, lower_boundary(k))

\* strftime('%Y-%m-%d') of the timestamp of row k: the rows of the frame are
\* daily and sorted, so the date of a row is the day number of its timestamp.
Date(k) == k

(***************************************************************************)
(* The strategy object.  Self is the record of its mutable attributes; the *)
(* methods below map a strategy object to the object they leave behind.    *)
(***************************************************************************)
Self == [position_size |-> position_size,
         position_avg_price |-> position_avg_price,
         equity |-> equity,
         trade_id |-> trade_id,
         pending_signal |-> pending_signal,
         trade_log |-> trade_log]

SetSelf(s) ==
    /\ position_size' = s.position_size
    /\ position_avg_price' = s.position_avg_price
    /\ equity' = s.equity
    /\ trade_id' = s.trade_id
    /\ pending_signal' = s.pending_signal
    /\ trade_log' = s.trade_log

\* The commission log_trade charges on a close: trade_value * commission_rate
\* with trade_value = abs(position_size) * price.
\* (Faulty variant: the commission charged on the entry notional.)
close_commission_entry_notional(s, price) ==
    RMul(RMul(RAbs(s.position_size), s.position_avg_price), commission_rate)
close_commission(s, price) ==
    RMul(RMul(RAbs(s.position_size), price), commission_rate)

calculate_position_size_value(s, price) ==
    LET equity_to_use == RMul(s.equity, RDiv(qty_value, R(100)))
    IN  RDiv(equity_to_use, price)

\* (Faulty variant: a close records the gross profit as its net_pnl.)
log_trade_net_pnl_unrecorded(s, act, price, timestamp, reason, bar_index) ==
    IF act = "CLOSE"
    THEN LET closing_long == RGt(s.position_size, Zero)
             pnl == IF closing_long
                    THEN RMul(RSub(price, s.position_avg_price), s.position_size)
                    ELSE RMul(RSub(s.position_avg_price, price), RAbs(s.position_size))
             action_name == IF closing_long THEN "CLOSE_LONG" ELSE "CLOSE_SHORT"
             commission == close_commission(s, price)
             net_pnl == RSub(pnl, commission)
             new_equity == RAdd(s.equity, net_pnl)
         IN  [s EXCEPT !.trade_id = s.trade_id + 1,
                       !.equity = new_equity,
                       !.trade_log = Append(s.trade_log,
                           [trade_id |-> s.trade_id + 1,
                            bar_index |-> bar_index,
                            date |-> timestamp,
                            action |-> action_name,
                            execution_price |-> price,
                            position_size |-> RAbs(s.position_size),
                            pnl |-> pnl,
                            commission |-> commission,
                            net_pnl |-> pnl,
                            equity_after |-> new_equity,
                            reason |-> reason]),
                       !.position_size = Zero,
                       !.position_avg_price = Zero]
    ELSE LET new_position_size == calculate_position_size_value(s, price)
             trade_value == RMul(new_position_size, price)
             commission == RMul(trade_value, commission_rate)
             new_equity == RSub(s.equity, commission)
         IN  [s EXCEPT !.trade_id = s.trade_id + 1,
                       !.position_size = IF act = "LONG" THEN new_position_size
                                         ELSE RNeg(new_position_size),
                       !.position_avg_price = price,
                       !.equity = new_equity,
                       !.trade_log = Append(s.trade_log,
                           [trade_id |-> s.trade_id + 1,
                            bar_index |-> bar_index,
                            date |-> timestamp,
                            action |-> act,
                            execution_price |-> price,
                            position_size |-> new_position_size,
                            pnl |-> Zero,
                            commission |-> commission,
                            net_pnl |-> RNeg(commission),
                            equity_after |-> new_equity,
                            reason |-> reason])]
log_trade(s, act, price, timestamp, reason, bar_index) ==
    IF act = "CLOSE"
    THEN LET closing_long == RGt(s.position_size, Zero)
             pnl == IF closing_long
                    THEN RMul(RSub(price, s.position_avg_price), s.position_size)
                    ELSE RMul(RSub(s.position_avg_price, price), RAbs(s.position_size))
             action_name == IF closing_long THEN "CLOSE_LONG" ELSE "CLOSE_SHORT"
             commission == close_commission(s, price)
             net_pnl == RSub(pnl, commission)
             new_equity == RAdd(s.equity, net_pnl)
         IN  [s EXCEPT !.trade_id = s.trade_id + 1,
                       !.equity = new_equity,
                       !.trade_log = Append(s.trade_log,
                           [trade_id |-> s.trade_id + 1,
                            bar_index |-> bar_index,
                            date |-> timestamp,
                            action |-> action_name,
                            execution_price |-> price,
                            position_size |-> RAbs(s.position_size),
                            pnl |-> pnl,
                            commission |-> commission,
                            net_pnl |-> net_pnl,
                            equity_after |-> new_equity,
                            reason |-> reason]),
                       !.position_size = Zero,
                       !.position_avg_price = Zero]
    ELSE LET new_position_size == calculate_position_size_value(s, price)
             trade_value == RMul(new_position_size, price)
             commission == RMul(trade_value, commission_rate)
             new_equity == RSub(s.equity, commission)
         IN  [s EXCEPT !.trade_id = s.trade_id + 1,
                       !.position_size = IF act = "LONG" THEN new_position_size
                                         ELSE RNeg(new_position_size),
                       !.position_avg_price = price,
                       !.equity = new_equity,
                       !.trade_log = Append(s.trade_log,
                           [trade_id |-> s.trade_id + 1,
                            bar_index |-> bar_index,
                            date |-> timestamp,
                            action |-> act,
                            execution_price |-> price,
                            position_size |-> new_position_size,
                            pnl |-> Zero,
                            commission |-> commission,
                            net_pnl |-> RNeg(commission),
                            equity_after |-> new_equity,
                            reason |-> reason])]

\* The stop price check_stop_loss computes for the open position on row k.
\* (Faulty variant: the stop distance taken from the ATR of the previous row.)
stop_price_previous_atr(s, k) ==
    IF RGt(s.position_size, Zero)
    THEN RSub(s.position_avg_price, RMul(calculate_atr(k - 1), stop_loss_mult))
    ELSE RAdd(s.position_avg_price, RMul(calculate_atr(k - 1), stop_loss_mult))
\* (Faulty variant: a stop the row has gapped past is filled at the nearest
\* price of the row.)
stop_price_inside_bar(s, k) ==
    IF RGt(s.position_size, Zero)
    THEN RMin(RSub(s.position_avg_price, RMul(calculate_atr(k), stop_loss_mult)),
              Row(k).high)
    ELSE RMax(RAdd(s.position_avg_price, RMul(calculate_atr(k), stop_loss_mult)),
              Row(k).low)
stop_price(s, k) ==
    IF RGt(s.position_size, Zero)
    THEN RSub(s.position_avg_price, RMul(calculate_atr(k), stop_loss_mult))
    ELSE RAdd(s.position_avg_price, RMul(calculate_atr(k), stop_loss_mult))

\* Whether check_stop_loss returns True on row k.
stop_triggered(s, k) ==
    IF s.position_size = Zero \/ isna(calculate_atr(k)) THEN FALSE
    ELSE IF RGt(s.position_size, Zero)
         THEN RLe(Row(k).low, stop_price(s, k))
         ELSE RGe(Row(k).high, stop_price(s, k))

\* The strategy object check_stop_loss leaves behind.
check_stop_loss(s, k, timestamp, bar_index) ==
    IF ~stop_triggered(s, k) THEN s
    ELSE log_trade(s, "CLOSE", stop_price(s, k), timestamp,
                   IF RGt(s.position_size, Zero) THEN "SL Long" ELSE "SL Short",
                   bar_index)

\* detect_signals: the type of the signal it returns, "None" for None.
\* (Faulty variant: an entry signal in the direction of the open position.)
detect_signals_same_direction(s, k) ==
    IF isna(upper_boundary(k)) \/ isna(lower_boundary(k)) THEN "None"
    ELSE IF go_long(k)
         THEN IF RLt(s.position_size, Zero) THEN "REVERSE_TO_LONG" ELSE "LONG"
         ELSE IF go_short(k)
              THEN IF RGt(s.position_size, Zero) THEN "REVERSE_TO_SHORT" ELSE "SHORT"
              ELSE "None"
\* (Faulty variant: the short breakout is tested before the long one.)
detect_signals_short_first(s, k) ==
    IF isna(upper_boundary(k)) \/ isna(lower_boundary(k)) THEN "None"
    ELSE IF go_short(k)
         THEN IF RGt(s.position_size, Zero) THEN "REVERSE_TO_SHORT"
              ELSE IF RGe(s.position_size, Zero) THEN "SHORT"
              ELSE "None"
         ELSE IF go_long(k)
              THEN IF RLt(s.position_size, Zero) THEN "REVERSE_TO_LONG"
                   ELSE IF RLe(s.position_size, Zero) THEN "LONG"
                   ELSE "None"
              ELSE "None"
detect_signals(s, k) ==
    IF isna(upper_boundary(k)) \/ isna(lower_boundary(k)) THEN "None"
    ELSE IF go_long(k)
         THEN IF RLt(s.position_size, Zero) THEN "REVERSE_TO_LONG"
              ELSE IF RLe(s.position_size, Zero) THEN "LONG"
              ELSE "None"
         ELSE IF go_short(k)
              THEN IF RGt(s.position_size, Zero) THEN "REVERSE_TO_SHORT"
                   ELSE IF RGe(s.position_size, Zero) THEN "SHORT"
                   ELSE "None"
              ELSE "None"

\* execute_pending_signal: the strategy object it leaves behind.
\* (Faulty variant: a reversal that enters without closing the position.)
execute_pending_signal_without_close(s, open_price, timestamp, bar_index) ==
    IF s.pending_signal = "None" THEN s
    ELSE LET sig == s.pending_signal
             c == [s EXCEPT !.pending_signal = "None"]
         IN  IF sig \in {"REVERSE_TO_LONG", "LONG"}
             THEN log_trade(c, "LONG", open_price, timestamp, "Long Entry", bar_index)
             ELSE log_trade(c, "SHORT", open_price, timestamp, "Short Entry", bar_index)
\* (Faulty variant: the pending signal is not cleared when it executes.)
execute_pending_signal_keeps_pending(s, open_price, timestamp, bar_index) ==
    IF s.pending_signal = "None" THEN s
    ELSE IF s.pending_signal \in {"REVERSE_TO_LONG", "LONG"}
         THEN LET d == IF RLt(s.position_size, Zero)
                       THEN log_trade(s, "CLOSE", open_price, timestamp,
                                      "Reverse to Long", bar_index)
                       ELSE s
              IN  log_trade(d, "LONG", open_price, timestamp, "Long Entry", bar_index)
         ELSE LET d == IF RGt(s.position_size, Zero)
                       THEN log_trade(s, "CLOSE", open_price, timestamp,
                                      "Reverse to Short", bar_index)
                       ELSE s
              IN  log_trade(d, "SHORT", open_price, timestamp, "Short Entry", bar_index)
execute_pending_signal(s, open_price, timestamp, bar_index) ==
    IF s.pending_signal = "None" THEN s
    ELSE LET sig == s.pending_signal
             c == [s EXCEPT !.pending_signal = "None"]
         IN  IF sig = "REVERSE_TO_LONG"
             THEN LET d == IF RLt(c.position_size, Zero)
                           THEN log_trade(c, "CLOSE", open_price, timestamp,
                                          "Reverse to Long", bar_index)
                           ELSE c
                  IN  log_trade(d, "LONG", open_price, timestamp, "Long Entry", bar_index)
             ELSE IF sig = "REVERSE_TO_SHORT"
             THEN LET d == IF RGt(c.position_size, Zero)
                           THEN log_trade(c, "CLOSE", open_price, timestamp,
                                          "Reverse to Short", bar_index)
                           ELSE c
                  IN  log_trade(d, "SHORT", open_price, timestamp, "Short Entry", bar_index)
             ELSE IF sig = "LONG"
             THEN log_trade(c, "LONG", open_price, timestamp, "Long Entry", bar_index)
             ELSE IF sig = "SHORT"
             THEN log_trade(c, "SHORT", open_price, timestamp, "Short Entry", bar_index)
             ELSE c

\* execute_pending_signal: the action name and the price it returns.
executed_action(s) ==
    IF s.pending_signal \in {"REVERSE_TO_LONG", "LONG"} THEN "LONG_ENTRY"
    ELSE IF s.pending_signal \in {"REVERSE_TO_SHORT", "SHORT"} THEN "SHORT_ENTRY"
    ELSE "HOLD"

executed_price(s, open_price) ==
    IF s.pending_signal = "None" THEN NaN ELSE open_price

(***************************************************************************)
(* run_correct_timing_backtest.                                            *)
(***************************************************************************)
\* The four steps of the loop body, in the order the body runs them.
\* (Faulty variant: the stop-loss checked before the pending signal executes.)
step_order_stop_first == <<"check_stop", "execute_pending", "detect", "daily">>
step_order == <<"execute_pending", "check_stop", "detect", "daily">>

\* The position of the loop after the step at position p.
StepAfter(p) ==
    LET k == CHOOSE n \in 1..Len(step_order) : step_order[n] = p
    IN  IF k < Len(step_order) THEN step_order[k + 1] ELSE "iterate"

Init ==
    /\ df = <<>>
    /\ pc = "iterate"
    /\ position_size = Zero
    /\ position_avg_price = Zero
    /\ equity = initial_capital
    /\ trade_id = 0
    /\ pending_signal = "None"
    /\ daily_log = <<>>
    /\ trade_log = <<>>
    /\ action = "HOLD"
    /\ exec_price = NaN
    /\ stop_hit = FALSE
    /\ signal = "None"
    /\ trades = <<>>
    /\ pending_stop_price = NaN
    /\ pending_stop_type = "None"
    /\ pending_long_signal = FALSE
    /\ pending_short_signal = FALSE
    /\ config = [lookback_period |-> lookback_period, atr_period |-> atr_period]
    /\ runs = <<>>
    /\ daily_data = <<>>
    /\ current_bar_close = NaN
    /\ parameters = no_parameters
    /\ strategy = ExactPineScriptStrategy
    /\ result = <<>>

\* for i, (timestamp, row) in enumerate(df.iterrows()): the next row.
NextRow ==
    /\ pc = "iterate"
    /\ Len(df) < MaxBars
    /\ \E bar \in Bars : df' = Append(df, bar)
    /\ pc' = step_order[1]
    /\ UNCHANGED <<position_size, position_avg_price, equity, trade_id,
                   pending_signal, daily_log, trade_log,
                   action, exec_price, stop_hit, signal>>
    /\ UNCHANGED <<pine_vars, exact_vars, config, runs>>

\* The price step 1 passes to execute_pending_signal: row['open'].
\* (Faulty variant: the close of the row.)
fill_price_close(k) == Row(k).close
fill_price(k) == Row(k).open

\* 1. Execute any pending signal from previous bar at OPEN price.
\* (Faulty variant: the step leaves the pending signal waiting.)
ExecutePending_skipped ==
    /\ pc = "execute_pending"
    /\ action' = "HOLD"
    /\ exec_price' = NaN
    /\ pc' = StepAfter("execute_pending")
    /\ UNCHANGED <<df, position_size, position_avg_price, equity, trade_id,
                   pending_signal, daily_log, trade_log, stop_hit, signal>>
    /\ UNCHANGED <<pine_vars, exact_vars, config, runs>>
ExecutePending ==
    /\ pc = "execute_pending"
    /\ SetSelf(execute_pending_signal(Self, fill_price(i), Date(i), i))
    /\ action' = executed_action(Self)
    /\ exec_price' = executed_price(Self, fill_price(i))
    /\ pc' = StepAfter("execute_pending")
    /\ UNCHANGED <<df, daily_log, stop_hit, signal>>
    /\ UNCHANGED <<pine_vars, exact_vars, config, runs>>

\* 2. Check stop loss during current bar.
CheckStop ==
    /\ pc = "check_stop"
    /\ SetSelf(check_stop_loss(Self, i, Date(i), i))
    /\ stop_hit' = stop_triggered(Self, i)
    /\ action' = IF stop_triggered(Self, i) THEN "STOP_LOSS" ELSE action
    /\ exec_price' = IF stop_triggered(Self, i) THEN stop_price(Self, i) ELSE exec_price
    /\ pc' = StepAfter("check_stop")
    /\ UNCHANGED <<df, daily_log, signal>>
    /\ UNCHANGED <<pine_vars, exact_vars, config, runs>>

\* 3. Detect signals for NEXT bar execution.
\* (Faulty variant: the detected signal is executed at once, at the close.)
DetectSignals_executes ==
    /\ pc = "detect"
    /\ signal' = detect_signals(Self, i)
    /\ SetSelf(execute_pending_signal(
                   [Self EXCEPT !.pending_signal = detect_signals(Self, i)],
                   Row(i).close, Date(i), i))
    /\ pc' = StepAfter("detect")
    /\ UNCHANGED <<df, daily_log, action, exec_price, stop_hit>>
    /\ UNCHANGED <<pine_vars, exact_vars, config, runs>>
DetectSignals ==
    /\ pc = "detect"
    /\ signal' = detect_signals(Self, i)
    /\ pending_signal' = IF detect_signals(Self, i) # "None"
                         THEN detect_signals(Self, i) ELSE pending_signal
    /\ pc' = StepAfter("detect")
    /\ UNCHANGED <<df, position_size, position_avg_price, equity, trade_id,
                   daily_log, trade_log, action, exec_price, stop_hit>>
    /\ UNCHANGED <<pine_vars, exact_vars, config, runs>>

unrealized_pnl ==
    IF position_size # Zero
    THEN IF RGt(position_size, Zero)
         THEN RMul(RSub(Row(i).close, position_avg_price), position_size)
         ELSE RMul(RSub(position_avg_price, Row(i).close), RAbs(position_size))
    ELSE Zero

\* 4. Log daily entry.
\* (Faulty variant: no entry is logged for a bar without valid boundaries.)
DailyLog_after_warm_up ==
    /\ pc = "daily"
    /\ daily_log' = IF isna(upper_boundary(i)) THEN daily_log
                    ELSE Append(daily_log,
           [bar_index |-> i,
            date |-> Date(i),
            go_long_signal |-> go_long(i),
            go_short_signal |-> go_short(i),
            pending_signal |-> signal,
            action_executed |-> action,
            execution_price |-> exec_price,
            position_size |-> position_size,
            position_avg_price |-> position_avg_price,
            equity |-> equity,
            unrealized_pnl |-> unrealized_pnl,
            total_equity |-> RAdd(equity, unrealized_pnl)])
    /\ pc' = StepAfter("daily")
    /\ UNCHANGED <<df, position_size, position_avg_price, equity, trade_id,
                   pending_signal, trade_log, action, exec_price, stop_hit, signal>>
    /\ UNCHANGED <<pine_vars, exact_vars, config, runs>>
\* (Faulty variant: the mark-to-market value is stored as the equity.)
DailyLog_marks_equity ==
    /\ pc = "daily"
    /\ daily_log' = Append(daily_log,
           [bar_index |-> i,
            date |-> Date(i),
            go_long_signal |-> go_long(i),
            go_short_signal |-> go_short(i),
            pending_signal |-> signal,
            action_executed |-> action,
            execution_price |-> exec_price,
            position_size |-> position_size,
            position_avg_price |-> position_avg_price,
            equity |-> equity,
            unrealized_pnl |-> unrealized_pnl,
            total_equity |-> RAdd(equity, unrealized_pnl)])
    /\ equity' = RAdd(equity, unrealized_pnl)
    /\ pc' = StepAfter("daily")
    /\ UNCHANGED <<df, position_size, position_avg_price, trade_id,
                   pending_signal, trade_log, action, exec_price, stop_hit, signal>>
    /\ UNCHANGED <<pine_vars, exact_vars, config, runs>>
DailyLog ==
    /\ pc = "daily"
    /\ daily_log' = Append(daily_log,
           [bar_index |-> i,
            date |-> Date(i),
            go_long_signal |-> go_long(i),
            go_short_signal |-> go_short(i),
            pending_signal |-> signal,
            action_executed |-> action,
            execution_price |-> exec_price,
            position_size |-> position_size,
            position_avg_price |-> position_avg_price,
            equity |-> equity,
            unrealized_pnl |-> unrealized_pnl,
            total_equity |-> RAdd(equity, unrealized_pnl)])
    /\ pc' = StepAfter("daily")
    /\ UNCHANGED <<df, position_size, position_avg_price, equity, trade_id,
                   pending_signal, trade_log, action, exec_price, stop_hit, signal>>
    /\ UNCHANGED <<pine_vars, exact_vars, config, runs>>

\* The loop ends: the row processed last is the final row of the frame.
EndOfFrame ==
    /\ pc = "iterate"
    /\ Len(df) >= 1
    /\ pc' = "final_pending"
    /\ UNCHANGED <<df, position_size, position_avg_price, equity, trade_id,
                   pending_signal, daily_log, trade_log,
                   action, exec_price, stop_hit, signal>>
    /\ UNCHANGED <<pine_vars, exact_vars, config, runs>>

\* Execute any final pending signal.
\* (Faulty variant: the pending signal is dropped.)
FinalPending_discard ==
    /\ pc = "final_pending"
    /\ pending_signal' = "None"
    /\ pc' = "final_close"
    /\ UNCHANGED <<df, position_size, position_avg_price, equity, trade_id,
                   daily_log, trade_log, action, exec_price, stop_hit, signal>>
    /\ UNCHANGED <<pine_vars, exact_vars, config, runs>>
FinalPending ==
    /\ pc = "final_pending"
    /\ SetSelf(IF pending_signal # "None"
               THEN execute_pending_signal(Self, Row(i).close, Date(i), i)
               ELSE Self)
    /\ pc' = "final_close"
    /\ UNCHANGED <<df, daily_log, action, exec_price, stop_hit, signal>>
    /\ UNCHANGED <<pine_vars, exact_vars, config, runs>>

\* Close final position.
\* (Faulty variant: the run returns without closing.)
FinalClose_skipped ==
    /\ pc = "final_close"
    /\ pc' = "done"
    /\ UNCHANGED <<df, position_size, position_avg_price, equity, trade_id,
                   pending_signal, daily_log, trade_log,
                   action, exec_price, stop_hit, signal>>
    /\ UNCHANGED <<pine_vars, exact_vars, config, runs>>
\* (Faulty variant: the close is logged without its bar index, -1 standing
\* for the default None.)
FinalClose_without_bar_index ==
    /\ pc = "final_close"
    /\ SetSelf(IF position_size # Zero
               THEN log_trade(Self, "CLOSE", Row(i).close, Date(i), "End of backtest", -1)
               ELSE Self)
    /\ pc' = "done"
    /\ UNCHANGED <<df, daily_log, action, exec_price, stop_hit, signal>>
    /\ UNCHANGED <<pine_vars, exact_vars, config, runs>>
FinalClose ==
    /\ pc = "final_close"
    /\ SetSelf(IF position_size # Zero
               THEN log_trade(Self, "CLOSE", Row(i).close, Date(i), "End of backtest", i)
               ELSE Self)
    /\ pc' = "done"
    /\ UNCHANGED <<df, daily_log, action, exec_price, stop_hit, signal>>
    /\ UNCHANGED <<pine_vars, exact_vars, config, runs>>

Next ==
    \/ NextRow
    \/ ExecutePending
    \/ CheckStop
    \/ DetectSignals
    \/ DailyLog
    \/ EndOfFrame
    \/ FinalPending
    \/ FinalClose

Spec == Init /\ [][Next]_vars

TypeOK ==
    /\ pc \in {"iterate", "execute_pending", "check_stop", "detect", "daily",
               "final_pending", "final_close", "done"}
    /\ Len(df) <= MaxBars
    /\ Len(daily_log) <= Len(df)
    /\ equity[2] > 0
    /\ position_size[2] > 0

(***************************************************************************)
(* backtest_pine_script (src/pine_script_backtest.py): the same strategy   *)
(* written as one function over the frame.  It keeps its position in the   *)
(* locals position_size, position_avg_price and equity, its trades in the  *)
(* list trades, and the queued signal in two flags.  The literal 0.99 of   *)
(* its position value is qty_value / 100, and its commission_rate is the   *)
(* commission_rate above.  None is NaN for pending_stop_price and "None"   *)
(* for pending_stop_type.                                                  *)
(***************************************************************************)
PineMaxBars == 6

\* The bars a row of the frame of backtest_pine_script may hold: its frames
\* are one row longer than those of the strategy object, over fewer bars.
PineBars == { Bar(4, 4, 4, 4),     \* flat
             Bar(4, 5, 3, 4),     \* both wicks
             Bar(4, 9, 4, 9),     \* spike
             Bar(1, 1, 1, 1) }    \* gap down, flat

\* calculate_atr of pine_script_backtest.py: tr is zero on row 0.
pine_tr(k) ==
    IF k = 0 THEN Zero
    ELSE LET prev_close == Row(k - 1).close
         IN  RMax(RMax(RSub(Row(k).high, Row(k).low),
                       RAbs(RSub(Row(k).high, prev_close))),
                  RAbs(RSub(Row(k).low, prev_close)))

\* tr[1] + ... + tr[k].
RECURSIVE pine_tr_sum(_)
pine_tr_sum(k) == IF k = 0 THEN Zero ELSE RAdd(pine_tr_sum(k - 1), pine_tr(k))

\* atr[k]: zero before row atr_period, the mean of tr[1..atr_period] on row
\* atr_period, the running average after it.
\* (Faulty variant: the mean of the last atr_period true ranges on every row.)
pine_calculate_atr_rolling_mean(k) ==
    IF k < atr_period THEN Zero
    ELSE RDiv(RSub(pine_tr_sum(k), pine_tr_sum(k - atr_period)), R(atr_period))
RECURSIVE pine_calculate_atr(_)
pine_calculate_atr(k) ==
    IF k < atr_period THEN Zero
    ELSE IF k = atr_period THEN RDiv(pine_tr_sum(k), R(atr_period))
    ELSE RDiv(RAdd(RMul(pine_calculate_atr(k - 1), R(atr_period - 1)), pine_tr(k)),
              R(atr_period))

\* The rows of df_filtered.iloc[i-lookback_period-1:i] for i = k.
lookback_rows(k) == (k - lookback_period - 1)..(k - 1)

\* lookback_highs.max() and lookback_lows.min() for i = k.
pine_highest_high(k) == RollMax(k - 1, Cardinality(lookback_rows(k)))
pine_lowest_low(k) == RollMin(k - 1, Cardinality(lookback_rows(k)))
pine_breakout_range(k) == RSub(pine_highest_high(k), pine_lowest_low(k))
pine_upper_boundary(k) == RAdd(Row(k).open, RMul(pine_breakout_range(k), range_mult))
pine_lower_boundary(k) == RSub(Row(k).open, RMul(pine_breakout_range(k), range_mult))
pine_go_long(k) == RGt(Row(k).high, pine_upper_boundary(k))
pine_go_short(k) == RLt(Row(k).low, pine_lower_boundary(k))

\* The locals of backtest_pine_script as one record.
Locals == [position_size |-> position_size,
           position_avg_price |-> position_avg_price,
           equity |-> equity,
           trades |-> trades,
           pending_stop_price |-> pending_stop_price,
           pending_stop_type |-> pending_stop_type,
           pending_long_signal |-> pending_long_signal,
           pending_short_signal |-> pending_short_signal]

SetLocals(s) ==
    /\ position_size' = s.position_size
    /\ position_avg_price' = s.position_avg_price
    /\ equity' = s.equity
    /\ trades' = s.trades
    /\ pending_stop_price' = s.pending_stop_price
    /\ pending_stop_type' = s.pending_stop_type
    /\ pending_long_signal' = s.pending_long_signal
    /\ pending_short_signal' = s.pending_short_signal

\* The equity and the trade a close of the loop body leaves: the commission
\* is charged on position_value = abs(position_size) * position_avg_price.
pine_close(s, k, long, exit_price, act, comment) ==
    LET position_value == RMul(RAbs(s.position_size), s.position_avg_price)
        pnl == IF long
               THEN RMul(s.position_size, RSub(exit_price, s.position_avg_price))
               ELSE RMul(RAbs(s.position_size), RSub(s.position_avg_price, exit_price))
        commission_cost == RMul(position_value, commission_rate)
        new_equity == RAdd(s.equity, RSub(pnl, commission_cost))
    IN  [s EXCEPT !.equity = new_equity,
                  !.trades = Append(s.trades,
                      [date |-> Date(k),
                       action |-> act,
                       price |-> exit_price,
                       size |-> IF long THEN s.position_size ELSE RAbs(s.position_size),
                       pnl |-> RSub(pnl, commission_cost),
                       equity |-> new_equity,
                       comment |-> comment])]

\* The entry of STEP 1 at the open of row k.
pine_entry(s, k, long) ==
    LET open_price == Row(k).open
        position_value == RMul(s.equity, RDiv(qty_value, R(100)))
        new_size == IF long THEN RDiv(position_value, open_price)
                    ELSE RNeg(RDiv(position_value, open_price))
        new_equity == RSub(s.equity, RMul(position_value, commission_rate))
        stop_distance == RMul(pine_calculate_atr(k), stop_loss_mult)
    IN  [s EXCEPT !.position_size = new_size,
                  !.position_avg_price = open_price,
                  !.equity = new_equity,
                  !.pending_stop_price = IF long THEN RSub(open_price, stop_distance)
                                         ELSE RAdd(open_price, stop_distance),
                  !.pending_stop_type = IF long THEN "LONG" ELSE "SHORT",
                  !.trades = Append(s.trades,
                      [date |-> Date(k),
                       action |-> IF long THEN "ENTRY LONG" ELSE "ENTRY SHORT",
                       price |-> open_price,
                       size |-> RAbs(new_size),
                       pnl |-> Zero,
                       equity |-> new_equity,
                       comment |-> IF long THEN "Long Entry Signal"
                                   ELSE "Short Entry Signal"]),
                  !.pending_long_signal = IF long THEN FALSE ELSE s.pending_long_signal,
                  !.pending_short_signal = IF long THEN s.pending_short_signal ELSE FALSE]

\* STEP 1: Execute pending signals from previous bar (at current bar's OPEN).
pine_step1(s, k) ==
    IF s.pending_long_signal
    THEN pine_entry(IF RLt(s.position_size, Zero)
                    THEN pine_close(s, k, FALSE, Row(k).open, "CLOSE SHORT",
                                    "Reverse to Long")
                    ELSE s, k, TRUE)
    ELSE IF s.pending_short_signal
    THEN pine_entry(IF RGt(s.position_size, Zero)
                    THEN pine_close(s, k, TRUE, Row(k).open, "CLOSE LONG",
                                    "Reverse to Short")
                    ELSE s, k, FALSE)
    ELSE s

\* Whether STEP 2 closes the position on row k.
pine_stop_hit(s, k) ==
    /\ ~isna(s.pending_stop_price)
    /\ ~(s.pending_long_signal \/ s.pending_short_signal)
    /\ \/ s.pending_stop_type = "LONG" /\ RLe(Row(k).low, s.pending_stop_price)
       \/ s.pending_stop_type = "SHORT" /\ RGe(Row(k).high, s.pending_stop_price)

\* STEP 2: Check stop losses.
pine_step2(s, k) ==
    IF ~pine_stop_hit(s, k) THEN s
    ELSE LET long == s.pending_stop_type = "LONG"
             c == pine_close(s, k, long, s.pending_stop_price,
                             IF long THEN "STOP LOSS LONG" ELSE "STOP LOSS SHORT",
                             "Stop Loss")
         IN  [c EXCEPT !.position_size = Zero,
                       !.position_avg_price = Zero,
                       !.pending_stop_price = NaN,
                       !.pending_stop_type = "None"]

\* The side STEP 3 queues when both breakouts fire on row k.
long_distance(k) == RSub(pine_upper_boundary(k), Row(k).open)
short_distance(k) == RSub(Row(k).open, pine_lower_boundary(k))
\* (Faulty variant: a tie of the two distances goes to the long side.)
both_fire_long_on_tie(k) == RGe(long_distance(k), short_distance(k))
both_fire_long(k) == RGt(long_distance(k), short_distance(k))

\* STEP 3: Detect new signals for NEXT bar execution.
pine_step3(s, k) ==
    IF \/ isna(s.pending_stop_price)
       \/ s.pending_stop_type = "LONG" /\ RGt(Row(k).low, s.pending_stop_price)
       \/ s.pending_stop_type = "SHORT" /\ RLt(Row(k).high, s.pending_stop_price)
    THEN IF pine_go_long(k) /\ ~pine_go_short(k)
         THEN [s EXCEPT !.pending_long_signal = TRUE, !.pending_short_signal = FALSE]
         ELSE IF pine_go_short(k) /\ ~pine_go_long(k)
         THEN [s EXCEPT !.pending_short_signal = TRUE, !.pending_long_signal = FALSE]
         ELSE IF pine_go_long(k) /\ pine_go_short(k)
         THEN IF both_fire_long(k)
              THEN [s EXCEPT !.pending_long_signal = TRUE, !.pending_short_signal = FALSE]
              ELSE [s EXCEPT !.pending_short_signal = TRUE, !.pending_long_signal = FALSE]
         ELSE s
    ELSE s

\* Close any remaining position at end: the close adds position_value to equity.
pine_final_close(s, k) ==
    IF s.position_size = Zero THEN s
    ELSE LET final_price == Row(k).close
             long == RGt(s.position_size, Zero)
             position_value == RMul(RAbs(s.position_size), s.position_avg_price)
             gross == IF long
                      THEN RMul(s.position_size, RSub(final_price, s.position_avg_price))
                      ELSE RMul(RAbs(s.position_size),
                                RSub(s.position_avg_price, final_price))
             pnl == RSub(gross, RMul(position_value, commission_rate))
             new_equity == RAdd(s.equity, RAdd(position_value, pnl))
         IN  [s EXCEPT !.equity = new_equity,
                       !.trades = Append(s.trades,
                           [date |-> Date(k),
                            action |-> "CLOSE FINAL",
                            price |-> final_price,
                            size |-> RAbs(s.position_size),
                            pnl |-> pnl,
                            equity |-> new_equity,
                            comment |-> "End of Date Range"])]

\* for i in range(lookback_period + 1, len(df_filtered)): the rows before
\* lookback_period + 1 are read by the windows only.
PineNextRow ==
    /\ pc = "iterate"
    /\ Len(df) < PineMaxBars
    /\ \E bar \in PineBars : df' = Append(df, bar)
    /\ pc' = IF Len(df) >= lookback_period + 1 THEN "step1" ELSE "iterate"
    /\ UNCHANGED <<position_size, position_avg_price, equity>>
    /\ UNCHANGED pine_vars
    /\ UNCHANGED <<timing_vars, exact_vars, config, runs>>

PineStep1 ==
    /\ pc = "step1"
    /\ SetLocals(pine_step1(Locals, i))
    /\ pc' = "step2"
    /\ UNCHANGED df
    /\ UNCHANGED <<timing_vars, exact_vars, config, runs>>

PineStep2 ==
    /\ pc = "step2"
    /\ SetLocals(pine_step2(Locals, i))
    /\ pc' = "step3"
    /\ UNCHANGED df
    /\ UNCHANGED <<timing_vars, exact_vars, config, runs>>

PineStep3 ==
    /\ pc = "step3"
    /\ SetLocals(pine_step3(Locals, i))
    /\ pc' = "iterate"
    /\ UNCHANGED df
    /\ UNCHANGED <<timing_vars, exact_vars, config, runs>>

\* The loop ends and the function closes what is open and returns.
PineFinalClose ==
    /\ pc = "iterate"
    /\ SetLocals(pine_final_close(Locals, i))
    /\ pc' = "done"
    /\ UNCHANGED df
    /\ UNCHANGED <<timing_vars, exact_vars, config, runs>>

PineNext ==
    \/ PineNextRow
    \/ PineStep1
    \/ PineStep2
    \/ PineStep3
    \/ PineFinalClose

PineSpec == Init /\ [][PineNext]_vars

(***************************************************************************)
(* Vocabulary of the properties.                                           *)
(***************************************************************************)
IsEntry(r) == r.action \in {"LONG", "SHORT"}
IsClose(r) == r.action \in {"CLOSE_LONG", "CLOSE_SHORT"}
IsStop(r) == r.reason \in {"SL Long", "SL Short"}
LongSignals == {"LONG", "REVERSE_TO_LONG"}

\* The records a step appends to trade_log, and that it only appends.
Appended == SubSeq(trade_log', Len(trade_log) + 1, Len(trade_log'))
Extends ==
    /\ Len(trade_log') >= Len(trade_log)
    /\ SubSeq(trade_log', 1, Len(trade_log)) = trade_log

\* The stop of a position pos entered at avg is breached by row k.
Breach(pos, avg, k) ==
    IF RGt(pos, Zero)
    THEN RLe(Row(k).low, RSub(avg, RMul(calculate_atr(k), stop_loss_mult)))
    ELSE /\ RLt(pos, Zero)
         /\ RGe(Row(k).high, RAdd(avg, RMul(calculate_atr(k), stop_loss_mult)))

\* The equity before record t of trade_log was logged.
EquityBefore(t) ==
    IF t = 1 THEN initial_capital ELSE trade_log[t - 1].equity_after

\* The last entry of daily_log: the last bar the loop has processed.
LastDaily == daily_log[Len(daily_log)]

(***************************************************************************)
(* C1 as stated: for every bar N that is not the last bar, if a long       *)
(* breakout is detected on bar N while the position is flat or short, then *)
(* no entry record is logged on bar N and exactly one LONG entry record is *)
(* logged on bar N+1, at bar N+1's open.                                   *)
(***************************************************************************)
C1_Original ==
    \A n \in 1..(Len(daily_log) - 1) :
        (daily_log[n].go_long_signal /\ RLe(daily_log[n].position_size, Zero)) =>
            /\ \A t \in DOMAIN trade_log :
                   trade_log[t].bar_index = n - 1 => ~IsEntry(trade_log[t])
            /\ Cardinality({t \in DOMAIN trade_log :
                   /\ trade_log[t].bar_index = n
                   /\ trade_log[t].action = "LONG"
                   /\ trade_log[t].execution_price = Row(n).open}) = 1

(***************************************************************************)
(* C1 amended: a long breakout detected on bar N while the position is     *)
(* flat or short queues a long signal and logs no trade record in the rest *)
(* of bar N (an entry record of bar N is the execution, at bar N's open,   *)
(* of the signal queued on bar N-1); step 1 of bar N+1 then logs exactly   *)
(* one entry record, a LONG at bar N+1's open, and the later steps of bar  *)
(* N+1 log no entry.                                                       *)
(***************************************************************************)
C1_Step ==
    /\ (pc = "detect" /\ go_long(i) /\ RLe(position_size, Zero)) =>
           (pending_signal' \in LongSignals /\ trade_log' = trade_log)
    /\ (pc = "daily" \/ (pc = "iterate" /\ pc' = "execute_pending")) =>
           (pending_signal' = pending_signal /\ trade_log' = trade_log)
    /\ (pc = "execute_pending" /\ pending_signal \in LongSignals) =>
           /\ Extends
           /\ Len(Appended) >= 1
           /\ Cardinality({t \in DOMAIN Appended : IsEntry(Appended[t])}) = 1
           /\ Appended[Len(Appended)].action = "LONG"
           /\ Appended[Len(Appended)].execution_price = Row(i).open
           /\ Appended[Len(Appended)].bar_index = i
    /\ (pc \in {"check_stop", "detect", "daily"}) =>
           (Extends /\ \A t \in DOMAIN Appended : ~IsEntry(Appended[t]))

C1_NextBarOpenEntry == [][C1_Step]_vars

\* A long breakout detected on a bar was executed as a LONG entry at the open
\* of the next bar, whose open differs from its close.
C1_Witness ==
    \E n \in 1..(Len(daily_log) - 1) : \E t \in DOMAIN trade_log :
        /\ daily_log[n].pending_signal \in LongSignals
        /\ trade_log[t].bar_index = n
        /\ trade_log[t].action = "LONG"
        /\ trade_log[t].execution_price = Row(n).open
        /\ Row(n).open # Row(n).close

(***************************************************************************)
(* C2: in every bar the loop processes, the steps run in the order         *)
(* (1) execute the pending signal at the bar's open, (2) stop-loss check,  *)
(* (3) signal detection, (4) daily log entry.  Step 1 appends only records *)
(* priced at the bar's open, step 2 appends after them at most one record, *)
(* a stop-loss close of the position step 1 left, and it does so exactly   *)
(* when that position's stop is breached; steps 3 and 4 append none.       *)
(***************************************************************************)
C2_Step ==
    /\ (pc = "iterate" /\ pc' # "final_pending") => pc' = "execute_pending"
    /\ pc = "execute_pending" =>
           /\ pc' = "check_stop"
           /\ Extends
           /\ \A t \in DOMAIN Appended :
                  /\ ~IsStop(Appended[t])
                  /\ Appended[t].execution_price = Row(i).open
                  /\ Appended[t].bar_index = i
    /\ pc = "check_stop" =>
           /\ pc' = "detect"
           /\ Extends
           /\ Len(Appended) = IF Breach(position_size, position_avg_price, i)
                              THEN 1 ELSE 0
           /\ \A t \in DOMAIN Appended :
                  /\ IsStop(Appended[t]) /\ IsClose(Appended[t])
                  /\ Appended[t].bar_index = i
                  /\ Appended[t].position_size = RAbs(position_size)
    /\ pc = "detect" => (pc' = "daily" /\ trade_log' = trade_log)
    /\ pc = "daily" =>
           /\ pc' = "iterate"
           /\ trade_log' = trade_log
           /\ Len(daily_log') = Len(daily_log) + 1

C2_FixedStepOrder == [][C2_Step]_vars

\* A bar in which step 1 logged an entry and step 2 then stopped it out.
C2_Witness ==
    \E t \in 2..Len(trade_log) :
        /\ IsEntry(trade_log[t - 1])
        /\ IsStop(trade_log[t])
        /\ trade_log[t].bar_index = trade_log[t - 1].bar_index

(***************************************************************************)
(* C3: a position that is open in a bar whose low (LONG) or high (SHORT)   *)
(* breaches avg_entry_price -/+ atr * stop_loss_mult, with the bar's own   *)
(* ATR, is closed in that bar at the stop price: after step 2 no open      *)
(* position is in breach of the current bar, and every stop-loss record    *)
(* carries the stop price computed from its entry and the ATR of its bar.  *)
(***************************************************************************)
C3_StopSameBarAtStopPrice ==
    /\ (pc \in {"detect", "daily", "iterate", "final_pending"} /\ Len(df) >= 1) =>
           ~Breach(position_size, position_avg_price, i)
    /\ \A t \in DOMAIN trade_log : IsStop(trade_log[t]) =>
           /\ t > 1
           /\ IsEntry(trade_log[t - 1])
           /\ LET r == trade_log[t]
                  e == trade_log[t - 1]
                  dist == RMul(calculate_atr(r.bar_index), stop_loss_mult)
              IN  /\ r.bar_index >= e.bar_index
                  /\ IsClose(r)
                  /\ r.reason = "SL Long" =>
                         /\ r.execution_price = RSub(e.execution_price, dist)
                         /\ RLe(Row(r.bar_index).low, r.execution_price)
                  /\ r.reason = "SL Short" =>
                         /\ r.execution_price = RAdd(e.execution_price, dist)
                         /\ RGe(Row(r.bar_index).high, r.execution_price)

\* A stop-loss fired at a price that is none of the bar's open, high, low, close.
C3_Witness ==
    \E t \in DOMAIN trade_log :
        /\ IsStop(trade_log[t])
        /\ trade_log[t].execution_price \notin
               { Row(trade_log[t].bar_index).open, Row(trade_log[t].bar_index).high,
                 Row(trade_log[t].bar_index).low, Row(trade_log[t].bar_index).close }

(***************************************************************************)
(* C4 as stated: on a bar where the stop-loss fired, signal detection is   *)
(* not run and no pending signal is queued.                                *)
(***************************************************************************)
C4_NoSignalOnStopBar ==
    \A n \in DOMAIN daily_log :
        daily_log[n].action_executed = "STOP_LOSS" =>
            daily_log[n].pending_signal = "None"

(***************************************************************************)
(* C5: every close record satisfies equity_after = equity_before +         *)
(* realized_pnl - exit_commission, with exit_commission = size * price *   *)
(* commission_rate and realized_pnl = (price - avg_entry) * size for a     *)
(* long, (avg_entry - price) * size for a short; the result is not         *)
(* clamped.                                                                *)
(***************************************************************************)
C5_CloseEquity ==
    \A t \in DOMAIN trade_log : IsClose(trade_log[t]) =>
        /\ t > 1
        /\ IsEntry(trade_log[t - 1])
        /\ LET r == trade_log[t]
               e == trade_log[t - 1]
               realized_pnl ==
                   IF r.action = "CLOSE_LONG"
                   THEN RMul(RSub(r.execution_price, e.execution_price), r.position_size)
                   ELSE RMul(RSub(e.execution_price, r.execution_price), r.position_size)
               exit_commission ==
                   RMul(RMul(r.position_size, r.execution_price), commission_rate)
           IN  /\ r.position_size = RAbs(e.position_size)
               /\ r.pnl = realized_pnl
               /\ r.commission = exit_commission
               /\ r.equity_after =
                      RSub(RAdd(EquityBefore(t), realized_pnl), exit_commission)
               /\ t = Len(trade_log) => equity = r.equity_after

\* A close at a loss larger than the equity: equity_after is negative.
C5_Witness ==
    \E t \in DOMAIN trade_log :
        /\ IsClose(trade_log[t])
        /\ RLt(trade_log[t].equity_after, Zero)
        /\ trade_log[t].execution_price # trade_log[t - 1].execution_price

(***************************************************************************)
(* C6 as stated: an entry at price p immediately followed by its close at  *)
(* the same price p changes equity by -(entry_commission +                 *)
(* exit_commission), which is strictly negative.                           *)
(***************************************************************************)
C6_RoundTripStrictlyNegative ==
    \A t \in 1..(Len(trade_log) - 1) :
        ( /\ IsEntry(trade_log[t])
          /\ IsClose(trade_log[t + 1])
          /\ trade_log[t + 1].execution_price = trade_log[t].execution_price ) =>
            LET change == RSub(trade_log[t + 1].equity_after, EquityBefore(t))
            IN  /\ change = RNeg(RAdd(trade_log[t].commission,
                                      trade_log[t + 1].commission))
                /\ RLt(change, Zero)

(***************************************************************************)
(* C7: the execution of a pending REVERSE_TO_LONG finds the position short *)
(* and appends exactly two records, CLOSE_SHORT then LONG, with the same   *)
(* date, bar_index and execution price; symmetrically REVERSE_TO_SHORT     *)
(* finds it long and appends CLOSE_LONG then SHORT.                        *)
(***************************************************************************)
C7_Step ==
    (pc \in {"execute_pending", "final_pending"}
        /\ pending_signal \in {"REVERSE_TO_LONG", "REVERSE_TO_SHORT"}) =>
        /\ IF pending_signal = "REVERSE_TO_LONG"
           THEN RLt(position_size, Zero) ELSE RGt(position_size, Zero)
        /\ Extends
        /\ Len(Appended) = 2
        /\ Appended[1].action =
               IF pending_signal = "REVERSE_TO_LONG" THEN "CLOSE_SHORT" ELSE "CLOSE_LONG"
        /\ Appended[2].action =
               IF pending_signal = "REVERSE_TO_LONG" THEN "LONG" ELSE "SHORT"
        /\ Appended[1].date = Appended[2].date
        /\ Appended[1].bar_index = Appended[2].bar_index
        /\ Appended[1].bar_index = i
        /\ Appended[1].execution_price = Appended[2].execution_price

C7_ReversalTwoRecords == [][C7_Step]_vars

\* A short-to-long reversal has been executed inside the loop.
C7_Witness ==
    \E t \in 1..(Len(trade_log) - 1) :
        /\ trade_log[t].reason = "Reverse to Long"
        /\ trade_log[t].action = "CLOSE_SHORT"
        /\ trade_log[t + 1].action = "LONG"
        /\ trade_log[t].execution_price = Row(trade_log[t].bar_index).open
        /\ trade_log[t + 1].execution_price = Row(trade_log[t].bar_index).open

(***************************************************************************)
(* C8: when the run returns the position is flat, and a position that was  *)
(* open after the last bar was processed has been closed by one record at  *)
(* the final bar's close price.                                            *)
(***************************************************************************)
C8_FlatAtReturn ==
    pc = "done" =>
        /\ position_size = Zero
        /\ LastDaily.position_size # Zero =>
               Cardinality({t \in 2..Len(trade_log) :
                   /\ t >= Len(trade_log) - 2
                   /\ IsClose(trade_log[t])
                   /\ ~IsStop(trade_log[t])
                   /\ trade_log[t].bar_index = i
                   /\ trade_log[t].execution_price = Row(i).close
                   /\ trade_log[t].position_size = RAbs(LastDaily.position_size)
                   /\ trade_log[t].action =
                          IF RGt(LastDaily.position_size, Zero)
                          THEN "CLOSE_LONG" ELSE "CLOSE_SHORT"
                   /\ IsEntry(trade_log[t - 1])
                   /\ trade_log[t - 1].execution_price =
                          LastDaily.position_avg_price}) = 1

\* The run has returned and a position held over the last bar was closed at
\* a close price that differs from the bar's open.
C8_Witness ==
    /\ pc = "done"
    /\ LastDaily.position_size # Zero
    /\ trade_log[Len(trade_log)].reason = "End of backtest"
    /\ Row(i).close # Row(i).open

(***************************************************************************)
(* C9 as stated: a signal still pending after the final bar is discarded;  *)
(* it produces no trade record and no commission charge.                   *)
(***************************************************************************)
C9_Step ==
    (pc = "final_pending" /\ pending_signal # "None") =>
        (trade_log' = trade_log /\ equity' = equity)

C10_NoSignalInWarmUp ==
    /\ \A n \in DOMAIN daily_log :
           daily_log[n].bar_index < lookback_period =>
               /\ daily_log[n].pending_signal = "None"
               /\ daily_log[n].action_executed = "HOLD"
               /\ ~daily_log[n].go_long_signal
               /\ ~daily_log[n].go_short_signal
    /\ \A t \in DOMAIN trade_log : trade_log[t].bar_index >= lookback_period
    /\ (Len(df) <= lookback_period) =>
           (pending_signal = "None" /\ trade_log = <<>> /\ equity = initial_capital)

\* The warm-up bars contained a bar that breaks out of the range of the bars
\* before it, and the run went on to trade after the warm-up.
C10_Witness ==
    /\ Len(daily_log) > lookback_period
    /\ \E n \in 2..lookback_period :
           RGt(Row(n - 1).high, Row(n - 2).high)
    /\ trade_log # <<>>

(***************************************************************************)
(* Vocabulary of the claims about the columns of the frame.                *)
(***************************************************************************)
\* The rows k-lookback_period .. k-1 of a frame f.
WindowOf(f, k) == { f[j + 1] : j \in (k - lookback_period)..(k - 1) }
\* The greatest high and the least low of a set of rows.
MaxHigh(W) == CHOOSE h \in { r.high : r \in W } : \A r \in W : RLe(r.high, h)
MinLow(W) == CHOOSE l \in { r.low : r \in W } : \A r \in W : RGe(r.low, l)

(***************************************************************************)
(* C11: for every bar k >= lookback_period, highest_high[k] and            *)
(* lowest_low[k] are the maximum high and the minimum low of exactly the   *)
(* bars k-lookback_period .. k-1, and the boundaries of bar k are          *)
(* open[k] +/- (highest_high[k] - lowest_low[k]) * range_mult; the         *)
(* boundaries of a bar are fixed by its open and by the frame before the   *)
(* bar, whatever the bar's own high, low and close are.                    *)
(***************************************************************************)
C11_BoundariesFromPreviousBars ==
    (pc = "execute_pending") =>      \* the loop has just read a row of the frame
        \A k \in lookback_period..(Len(df) - 1) :
            LET before == SubSeq(df, 1, k)  \* the rows 0 .. k-1: bar k is not in it
                hh == MaxHigh(WindowOf(before, k))
                ll == MinLow(WindowOf(before, k))
                spread == RMul(RSub(hh, ll), range_mult)
            IN  /\ highest_high(k) = hh
                /\ lowest_low(k) = ll
                /\ upper_boundary(k) = RAdd(Row(k).open, spread)
                /\ lower_boundary(k) = RSub(Row(k).open, spread)

\* A bar whose own high lies above the window and whose close differs from
\* its open, with boundaries a positive range away from the open.
C11_Witness ==
    /\ i >= lookback_period
    /\ RGt(Row(i).high, highest_high(i))
    /\ Row(i).close # Row(i).open
    /\ RGt(upper_boundary(i), Row(i).open)
    /\ RLt(upper_boundary(i), Row(i).high)

\* backtest_pine_script is processing row i: the loop body is between its
\* first and its last step.
PineProcessing == pc \in {"step1", "step2", "step3"}

(***************************************************************************)
(* C12: in backtest_pine_script, for every processed bar i the window      *)
(* behind highest_high and lowest_low is exactly the lookback_period bars  *)
(* i-lookback_period .. i-1: it leaves out bar i and holds no bar before   *)
(* bar i-lookback_period.                                                  *)
(***************************************************************************)
C12_WindowIsLookbackBars ==
    PineProcessing =>
        /\ lookback_rows(i) = (i - lookback_period)..(i - 1)
        /\ pine_highest_high(i) = MaxHigh(WindowOf(df, i))
        /\ pine_lowest_low(i) = MinLow(WindowOf(df, i))

\* atr_prev * (period - 1) / period + tr / period.
RunningAverage(atr_prev, tr) ==
    RAdd(RDiv(RMul(atr_prev, R(atr_period - 1)), R(atr_period)),
         RDiv(tr, R(atr_period)))

(***************************************************************************)
(* C13: the ATR of CorrectTimingStrategy.calculate_atr (seeded on bar 0)   *)
(* and the ATR of calculate_atr of pine_script_backtest.py (seeded on bar  *)
(* atr_period) satisfy, on every bar k after the seed bar,                 *)
(* atr[k] = atr[k-1] * (period-1) / period + true_range[k] / period: a     *)
(* running average with smoothing 1/period, not the mean of the last       *)
(* period true ranges.                                                     *)
(***************************************************************************)
C13_AtrIsRunningAverage ==
    (pc = "step1") =>                \* the loop has just read a row of the frame
        /\ \A k \in 1..(Len(df) - 1) :
               calculate_atr(k) = RunningAverage(calculate_atr(k - 1), true_range(k))
        /\ \A k \in (atr_period + 1)..(Len(df) - 1) :
               pine_calculate_atr(k) =
                   RunningAverage(pine_calculate_atr(k - 1), true_range(k))

\* An entry of backtest_pine_script on a bar after the seed bar, with a stop
\* taken from an ATR that differs from the mean of the last atr_period true
\* ranges.
C13_Witness ==
    /\ pc = "step2"
    /\ i > atr_period
    /\ Len(trades) >= 1
    /\ trades[Len(trades)].action = "ENTRY LONG"
    /\ trades[Len(trades)].date = Date(i)
    /\ pending_stop_price = RSub(Row(i).open, RMul(pine_calculate_atr(i), stop_loss_mult))
    /\ pine_calculate_atr(i) # pine_calculate_atr_rolling_mean(i)
    /\ calculate_atr(i) # pine_calculate_atr(i)

(***************************************************************************)
(* C14: on every bar with valid boundaries the long breakout flag is true  *)
(* exactly when high > upper_boundary and the short breakout flag exactly  *)
(* when low < lower_boundary, both strict: a bar whose high equals         *)
(* upper_boundary raises no long flag and queues no long signal, a bar     *)
(* whose low equals lower_boundary raises no short flag and queues no      *)
(* short signal, and a bar that touches both (a flat series, zero range)   *)
(* produces no signal at all.                                              *)
(***************************************************************************)
C14_StrictBreakout ==
    (pc = "iterate") =>              \* the loop has just logged a bar
        \A n \in DOMAIN daily_log :
            LET k == daily_log[n].bar_index
                d == daily_log[n]
                upper == upper_boundary(k)
                lower == lower_boundary(k)
            IN  (~isna(upper) /\ ~isna(lower)) =>
                    /\ d.go_long_signal = ~RLe(Row(k).high, upper)
                    /\ d.go_short_signal = ~RGe(Row(k).low, lower)
                    /\ Row(k).high = upper =>
                           (~d.go_long_signal /\ d.pending_signal \notin LongSignals)
                    /\ Row(k).low = lower =>
                           (~d.go_short_signal
                            /\ d.pending_signal \notin {"SHORT", "REVERSE_TO_SHORT"})
                    /\ (Row(k).high = upper /\ Row(k).low = lower) =>
                           d.pending_signal = "None"

\* A flat bar after a flat window: the range is zero, high and low equal the
\* boundaries, and the bar is logged without a signal.
C14_Witness ==
    /\ Len(daily_log) >= 1
    /\ ~isna(upper_boundary(LastDaily.bar_index))
    /\ breakout_range(LastDaily.bar_index) = Zero
    /\ Row(LastDaily.bar_index).high = upper_boundary(LastDaily.bar_index)
    /\ Row(LastDaily.bar_index).low = lower_boundary(LastDaily.bar_index)
    /\ ~LastDaily.go_long_signal
    /\ LastDaily.pending_signal = "None"

(***************************************************************************)
(* C15: in backtest_pine_script, when the long and the short breakout both *)
(* fire on a bar, the signal STEP 3 of that bar queues is the one whose    *)
(* boundary lies farther from the bar's open: a queued long has the larger *)
(* long distance, a queued short the larger short distance.                *)
(***************************************************************************)
C15_FartherBoundaryQueued ==
    (pc = "iterate" /\ i >= lookback_period + 1
       /\ pine_go_long(i) /\ pine_go_short(i)
       /\ (pending_long_signal \/ pending_short_signal)) =>
        /\ pending_long_signal => RGt(long_distance(i), short_distance(i))
        /\ pending_short_signal => RGt(short_distance(i), long_distance(i))

(***************************************************************************)
(* C16: detect_signals only returns an intent: the step that calls it      *)
(* leaves equity, position_size, position_avg_price, trade_id and          *)
(* trade_log as they were, in every state and on every bar.                *)
(***************************************************************************)
C16_Step ==
    (pc = "detect") =>
        /\ equity' = equity
        /\ position_size' = position_size
        /\ position_avg_price' = position_avg_price
        /\ trade_id' = trade_id
        /\ trade_log' = trade_log
        /\ signal' = detect_signals(Self, i)

C16_DetectLeavesLedger == [][C16_Step]_vars

\* detect_signals has returned a reversal while a position is open.
C16_Witness ==
    /\ pc = "daily"
    /\ signal \in {"REVERSE_TO_LONG", "REVERSE_TO_SHORT"}
    /\ pending_signal = signal
    /\ position_size # Zero
    /\ Len(trade_log) >= 1

(***************************************************************************)
(* C17: the trade log strictly alternates entry and close records and      *)
(* starts with an entry (records 1, 3, 5, ... are LONG/SHORT entries,      *)
(* records 2, 4, 6, ... are closes); an entry is logged only while the     *)
(* position is flat and a close only while a position is open, so the      *)
(* position is open exactly when the last record is an entry, and a        *)
(* change of direction is a close followed by an entry.                    *)
(***************************************************************************)
C17_Alternate ==
    /\ \A t \in DOMAIN trade_log :
           IF t % 2 = 1 THEN IsEntry(trade_log[t]) ELSE IsClose(trade_log[t])
    /\ (position_size # Zero) <=> (Len(trade_log) % 2 = 1)
    /\ \A t \in DOMAIN trade_log :
           trade_log[t].reason \in {"Reverse to Long", "Reverse to Short"} =>
               /\ t < Len(trade_log)
               /\ trade_log[t].action =
                      (IF trade_log[t].reason = "Reverse to Long"
                       THEN "CLOSE_SHORT" ELSE "CLOSE_LONG")
               /\ trade_log[t + 1].action =
                      (IF trade_log[t].reason = "Reverse to Long" THEN "LONG" ELSE "SHORT")
               /\ trade_log[t + 1].bar_index = trade_log[t].bar_index

\* A step that logs starts with an entry only if the position is flat
\* before it and with a close only if a position is open before it.
C17_Step ==
    /\ C17_Alternate'
    /\ Len(trade_log') > Len(trade_log) =>
           /\ Extends
           /\ IsEntry(Appended[1]) => position_size = Zero
           /\ IsClose(Appended[1]) => position_size # Zero

C18_EntrySizing ==
    \A t \in DOMAIN trade_log :
        IsEntry(trade_log[t]) =>
            LET p == trade_log[t].execution_price
                E == EquityBefore(t)
                size == RDiv(RMul(E, RDiv(qty_value, R(100))), p)
            IN  /\ RAbs(trade_log[t].position_size) = size
                /\ trade_log[t].equity_after =
                       RSub(E, RMul(RMul(RAbs(trade_log[t].position_size), p),
                                    commission_rate))
                /\ t = Len(trade_log) =>
                       /\ RAbs(position_size) = size
                       /\ position_avg_price = p
                       /\ equity = trade_log[t].equity_after

\* The equity the run holds when bar k begins.
EquityAtStart(k) == IF k = 0 THEN initial_capital ELSE daily_log[k].equity

(***************************************************************************)
(* C19: stored equity changes only inside log_trade, that is in a step     *)
(* that appends a trade record; the mark-to-market step of a bar logs      *)
(* unrealized_pnl = (close - position_avg_price) * position_size and       *)
(* total_equity = equity + unrealized_pnl and leaves equity, the position  *)
(* and trade_log as they were; on a bar with no trade record the equity    *)
(* logged for the bar equals the equity the bar began with.                *)
(***************************************************************************)
C19_QuietBars ==
    \A n \in DOMAIN daily_log :
        (\A t \in DOMAIN trade_log : trade_log[t].bar_index # daily_log[n].bar_index) =>
            daily_log[n].equity = EquityAtStart(n - 1)

C19_Step ==
    /\ equity' # equity => (Extends /\ Len(trade_log') > Len(trade_log))
    /\ (pc = "daily") =>
           /\ equity' = equity
           /\ position_size' = position_size
           /\ position_avg_price' = position_avg_price
           /\ trade_log' = trade_log
           /\ Len(daily_log') = Len(daily_log) + 1
           /\ daily_log'[Len(daily_log')].equity = equity
           /\ daily_log'[Len(daily_log')].unrealized_pnl =
                  RMul(RSub(Row(i).close, position_avg_price), position_size)
           /\ daily_log'[Len(daily_log')].total_equity =
                  RAdd(equity, daily_log'[Len(daily_log')].unrealized_pnl)
    /\ C19_QuietBars'

C19_EquityOnlyInLogTrade == [][C19_Step]_vars

\* A bar without a trade record that ends with a short position marked at a
\* loss: total_equity is below the stored equity, which is what it was.
C19_Witness ==
    /\ pc = "iterate"
    /\ Len(daily_log) >= 2
    /\ \A t \in DOMAIN trade_log : trade_log[t].bar_index # LastDaily.bar_index
    /\ RLt(position_size, Zero)
    /\ RLt(LastDaily.unrealized_pnl, Zero)
    /\ RLt(LastDaily.total_equity, equity)
    /\ equity = daily_log[Len(daily_log) - 1].equity

(***************************************************************************)
(* C20: a run over n bars appends exactly n entries to daily_log, one per  *)
(* bar in bar order, the warm-up bars included; and every change of the    *)
(* stored equity has exactly one trade_log record: a step moves equity     *)
(* through the equity_after values of the records it appends, one record   *)
(* per change, and a step that appends nothing leaves equity unchanged.    *)
(***************************************************************************)
C20_OneEntryPerBar ==
    /\ Len(daily_log) = IF pc \in {"execute_pending", "check_stop", "detect", "daily"}
                        THEN Len(df) - 1 ELSE Len(df)
    /\ \A n \in DOMAIN daily_log :
           daily_log[n].bar_index = n - 1 /\ daily_log[n].date = Date(n - 1)
    /\ pc = "done" => Len(daily_log) = Len(df)

C20_Step ==
    /\ C20_OneEntryPerBar'
    /\ Extends
    /\ equity' = IF Len(Appended) = 0 THEN equity
                 ELSE Appended[Len(Appended)].equity_after
    /\ \A j \in DOMAIN Appended :
           Appended[j].equity_after =
               RAdd(IF j = 1 THEN equity ELSE Appended[j - 1].equity_after,
                    Appended[j].net_pnl)
    /\ trade_id' = trade_id + Len(Appended)

C20_OneRecordPerChange == [][C20_Step]_vars

\* A finished run over MaxBars bars: a daily entry for each of them, the
\* first lookback_period of them warm-up bars, and two records appended by
\* the reversal that moved equity twice on one bar.
C20_Witness ==
    /\ pc = "done"
    /\ Len(df) = MaxBars
    /\ Len(daily_log) = MaxBars
    /\ \E t \in DOMAIN trade_log :
           /\ trade_log[t].reason \in {"Reverse to Long", "Reverse to Short"}
           /\ trade_log[t].equity_after # EquityBefore(t)
           /\ trade_log[t + 1].equity_after # trade_log[t].equity_after


(***************************************************************************)
(* Two CorrectTimingStrategy instances over the same loaded frame.  Every  *)
(* attribute of an instance is created by __init__ on the instance itself, *)
(* so an instance is a record of its own: its attributes (self), the       *)
(* locals of its run_correct_timing_backtest call, the index k of the row  *)
(* its loop is processing and the position pc of its loop body.  The frame *)
(* is loaded before the runs start and is only read.  TwinSpec interleaves *)
(* the steps of the two runs in every order.                               *)
(***************************************************************************)
TwinMaxBars == 4

TwinBars == { Bar(5, 5, 5, 5),     \* flat
              Bar(5, 6, 5, 5),     \* upper wick
              Bar(5, 5, 1, 1) }    \* drop inside the bar

TwinFrames == [1..TwinMaxBars -> TwinBars]

Instances == {1, 2}

\* __init__ and the entry of run_correct_timing_backtest.
new_run ==
    [k |-> -1,
     pc |-> "iterate",
     self |-> [position_size |-> Zero,
               position_avg_price |-> Zero,
               equity |-> initial_capital,
               trade_id |-> 0,
               pending_signal |-> "None",
               trade_log |-> <<>>],
     daily_log |-> <<>>,
     action |-> "HOLD",
     exec_price |-> NaN,
     stop_hit |-> FALSE,
     signal |-> "None"]

\* The daily entry step 4 appends for row k of the run r.
daily_entry(r, k) ==
    LET s == r.self
        pnl == IF s.position_size # Zero
               THEN IF RGt(s.position_size, Zero)
                    THEN RMul(RSub(Row(k).close, s.position_avg_price),
                              s.position_size)
                    ELSE RMul(RSub(s.position_avg_price, Row(k).close),
                              RAbs(s.position_size))
               ELSE Zero
    IN  [bar_index |-> k,
         date |-> Date(k),
         go_long_signal |-> go_long(k),
         go_short_signal |-> go_short(k),
         pending_signal |-> r.signal,
         action_executed |-> r.action,
         execution_price |-> r.exec_price,
         position_size |-> s.position_size,
         position_avg_price |-> s.position_avg_price,
         equity |-> s.equity,
         unrealized_pnl |-> pnl,
         total_equity |-> RAdd(s.equity, pnl)]

\* One step of run_correct_timing_backtest in the run r: the run it leaves.
run_step(r) ==
    LET s == r.self
        k == r.k
    IN  CASE r.pc = "iterate" ->
               IF k + 1 < Len(df)
               THEN [r EXCEPT !.k = k + 1, !.pc = step_order[1]]
               ELSE [r EXCEPT !.pc = "final_pending"]
          [] r.pc = "execute_pending" ->
               [r EXCEPT !.self = execute_pending_signal(s, fill_price(k), Date(k), k),
                         !.action = executed_action(s),
                         !.exec_price = executed_price(s, fill_price(k)),
                         !.pc = StepAfter("execute_pending")]
          [] r.pc = "check_stop" ->
               [r EXCEPT !.self = check_stop_loss(s, k, Date(k), k),
                         !.stop_hit = stop_triggered(s, k),
                         !.action = IF stop_triggered(s, k) THEN "STOP_LOSS" ELSE @,
                         !.exec_price = IF stop_triggered(s, k)
                                        THEN stop_price(s, k) ELSE @,
                         !.pc = StepAfter("check_stop")]
          [] r.pc = "detect" ->
               [r EXCEPT !.signal = detect_signals(s, k),
                         !.self.pending_signal =
                             IF detect_signals(s, k) # "None"
                             THEN detect_signals(s, k) ELSE @,
                         !.pc = StepAfter("detect")]
          [] r.pc = "daily" ->
               [r EXCEPT !.daily_log = Append(@, daily_entry(r, k)),
                         !.pc = StepAfter("daily")]
          [] r.pc = "final_pending" ->
               [r EXCEPT !.self = IF s.pending_signal # "None"
                                  THEN execute_pending_signal(s, Row(k).close,
                                                              Date(k), k)
                                  ELSE s,
                         !.pc = "final_close"]
          [] r.pc = "final_close" ->
               [r EXCEPT !.self = IF s.position_size # Zero
                                  THEN log_trade(s, "CLOSE", Row(k).close, Date(k),
                                                 "End of backtest", k)
                                  ELSE s,
                         !.pc = "done"]
          [] OTHER -> r

\* Two instances are constructed and the frame is loaded.
TwinInit ==
    /\ df \in TwinFrames
    /\ runs = [a \in Instances |-> new_run]
    /\ pc = "iterate"
    /\ position_size = Zero
    /\ position_avg_price = Zero
    /\ equity = initial_capital
    /\ trade_id = 0
    /\ pending_signal = "None"
    /\ daily_log = <<>>
    /\ trade_log = <<>>
    /\ action = "HOLD"
    /\ exec_price = NaN
    /\ stop_hit = FALSE
    /\ signal = "None"
    /\ trades = <<>>
    /\ pending_stop_price = NaN
    /\ pending_stop_type = "None"
    /\ pending_long_signal = FALSE
    /\ pending_short_signal = FALSE
    /\ config = [lookback_period |-> lookback_period, atr_period |-> atr_period]
    /\ daily_data = <<>>
    /\ current_bar_close = NaN
    /\ parameters = no_parameters
    /\ strategy = ExactPineScriptStrategy
    /\ result = <<>>

\* The instance a takes the next step of its run.
\* (Faulty variant: the daily entry is dated by the clock of the machine, a
\* reading that differs from one run to the next.)
TwinStep_wall_clock(a) ==
    /\ runs[a].pc # "done"
    /\ \E now \in 0..1 :
         LET r == run_step(runs[a])
             n == Len(r.daily_log)
         IN  runs' = [runs EXCEPT ![a] =
                 IF n > Len(runs[a].daily_log)
                 THEN [r EXCEPT !.daily_log[n].date = @ + now]
                 ELSE r]
    /\ UNCHANGED <<df, pc, position_size, position_avg_price, equity, config>>
    /\ UNCHANGED <<timing_vars, pine_vars, exact_vars>>
\* (Faulty variant: trade_log is an attribute of the class, one list that
\* every instance appends to.)
TwinStep_class_trade_log(a) ==
    /\ runs[a].pc # "done"
    /\ LET r == run_step(runs[a])
       IN  runs' = [b \in Instances |->
                       IF b = a THEN r
                       ELSE [runs[b] EXCEPT !.self.trade_log = r.self.trade_log]]
    /\ UNCHANGED <<df, pc, position_size, position_avg_price, equity, config>>
    /\ UNCHANGED <<timing_vars, pine_vars, exact_vars>>
TwinStep(a) ==
    /\ runs[a].pc # "done"
    /\ runs' = [runs EXCEPT ![a] = run_step(runs[a])]
    /\ UNCHANGED <<df, pc, position_size, position_avg_price, equity, config>>
    /\ UNCHANGED <<timing_vars, pine_vars, exact_vars>>

TwinNext == \E a \in Instances : TwinStep(a)

TwinSpec == TwinInit /\ [][TwinNext]_vars

NonPositiveBars == { Bar(-1, -1, -1, -1) }

NextRowNonPositive ==
    /\ pc = "iterate"
    /\ Len(df) < MaxBars
    /\ \E bar \in NonPositiveBars : df' = Append(df, bar)
    /\ pc' = step_order[1]
    /\ UNCHANGED <<position_size, position_avg_price, equity, trade_id,
                   pending_signal, daily_log, trade_log,
                   action, exec_price, stop_hit, signal>>
    /\ UNCHANGED <<pine_vars, exact_vars, config, runs>>

PriceNext == Next \/ NextRowNonPositive

PriceSpec == Init /\ [][PriceNext]_vars

(***************************************************************************)
(* C22: CorrectTimingStrategy never opens a position whose size was        *)
(* computed from a price <= 0: every entry record of the trade log has an  *)
(* execution price above zero.                                             *)
(***************************************************************************)
C22_NoEntryAtNonPositivePrice ==
    \A t \in DOMAIN trade_log :
        IsEntry(trade_log[t]) =>
            RGt(trade_log[t].execution_price, Zero)


(***************************************************************************)
(* A configuration with a period that is not positive.  __init__ assigns   *)
(* lookback_period and atr_period and a caller may overwrite them on the   *)
(* instance before load_data; no method compares them with zero.  What     *)
(* happens is what pandas does with them in load_data:                     *)
(*   alpha = 1.0 / period raises ZeroDivisionError for atr_period = 0,     *)
(*   ewm(alpha=alpha) raises ValueError for an alpha below zero,           *)
(*   rolling(window=w) raises ValueError for w < 0, and                    *)
(*   rolling(window=0) is accepted: its max and min are NaN on every row.  *)
(* ConfigSpec is load_data followed by run_correct_timing_backtest under   *)
(* such a configuration.                                                   *)
(***************************************************************************)
NonPositiveConfigs ==
    { c \in [lookback_period : {-1, 0, lookback_period},
             atr_period : {-1, 0, atr_period}] :
          c.lookback_period <= 0 \/ c.atr_period <= 0 }

ConfigInit ==
    /\ config \in NonPositiveConfigs
    /\ pc = "load_data"
    /\ df = <<>>
    /\ position_size = Zero
    /\ position_avg_price = Zero
    /\ equity = initial_capital
    /\ trade_id = 0
    /\ pending_signal = "None"
    /\ daily_log = <<>>
    /\ trade_log = <<>>
    /\ action = "HOLD"
    /\ exec_price = NaN
    /\ stop_hit = FALSE
    /\ signal = "None"
    /\ trades = <<>>
    /\ pending_stop_price = NaN
    /\ pending_stop_type = "None"
    /\ pending_long_signal = FALSE
    /\ pending_short_signal = FALSE
    /\ runs = <<>>
    /\ daily_data = <<>>
    /\ current_bar_close = NaN
    /\ parameters = no_parameters
    /\ strategy = ExactPineScriptStrategy
    /\ result = <<>>

\* Whether load_data ends with an exception under the configuration.
load_data_raises ==
    config.atr_period <= 0 \/ config.lookback_period < 0

\* load_data: it raises, or it returns the frame the run iterates over.
LoadData ==
    /\ pc = "load_data"
    /\ pc' = IF load_data_raises THEN "error" ELSE "iterate"
    /\ UNCHANGED <<df, position_size, position_avg_price, equity, config, runs>>
    /\ UNCHANGED <<timing_vars, pine_vars, exact_vars>>

ConfigNext == LoadData \/ Next

ConfigSpec == ConfigInit /\ [][ConfigNext]_vars

(***************************************************************************)
(* C23: under a configuration whose lookback_period or atr_period is not   *)
(* positive no bar is simulated: the trade log and the daily log stay      *)
(* empty.                                                                  *)
(***************************************************************************)
C23_NothingUnderNonPositivePeriod ==
    (config.lookback_period <= 0 \/ config.atr_period <= 0) =>
        /\ trade_log = <<>>
        /\ daily_log = <<>>


\* The end-to-end scenario: a frame at a constant price except for one bar,
\* the bar with 0-based index s, whose high rises above the price.
FlatBar == Bar(4, 4, 4, 4)
SpikeBars == { Bar(4, 5, 4, 4), Bar(4, 9, 4, 9) }
SpikeAt(f, s) ==
    /\ f[s + 1] \in SpikeBars
    /\ \A j \in 0..(Len(f) - 1) : j # s => f[j + 1] = FlatBar

\* The record of a LONG entry on bar k at the open of bar k.
IsLongEntryAtOpen(r, k) ==
    /\ r.action = "LONG"
    /\ r.bar_index = k
    /\ r.execution_price = Row(k).open

(***************************************************************************)
(* C24: the end-to-end scenario, with the lookback_period and the number   *)
(* of bars of the model.  On a frame at a constant price except for one    *)
(* spike on a bar s after the warm-up, the spike breaches upper_boundary   *)
(* and the trade log is empty until bar s has been processed, holds        *)
(* exactly one record, the LONG entry at the open of bar s+1, from then    *)
(* on, and holds exactly two records when the run returns: that entry and  *)
(* the forced close of the position at the close of the last bar.          *)
(***************************************************************************)
C24_SpikeScenario ==
    \A s \in lookback_period..(Len(df) - 1) :
        SpikeAt(df, s) =>
            /\ go_long(s)
            /\ (i = s /\ pc \in {"execute_pending", "check_stop", "detect",
                                 "daily", "iterate"})
                   => trade_log = <<>>
            /\ (i = s + 1 /\ pc = "execute_pending") => trade_log = <<>>
            /\ (i > s /\ pc # "done" /\ ~(i = s + 1 /\ pc = "execute_pending"))
                   => /\ Len(trade_log) = 1
                      /\ IsLongEntryAtOpen(trade_log[1], s + 1)
            /\ (i > s /\ pc = "done")
                   => /\ Len(trade_log) = 2
                      /\ IsLongEntryAtOpen(trade_log[1], s + 1)
                      /\ trade_log[2].action = "CLOSE_LONG"
                      /\ trade_log[2].reason = "End of backtest"
                      /\ trade_log[2].bar_index = i
                      /\ trade_log[2].execution_price = Row(i).close

\* The run has returned on a frame of MaxBars bars with the spike on the
\* first bar after the warm-up: its trade log is the entry and the forced
\* close.
C24_Witness ==
    /\ pc = "done"
    /\ Len(df) = MaxBars
    /\ SpikeAt(df, lookback_period)
    /\ Len(trade_log) = 2
    /\ trade_log[1].bar_index = lookback_period + 1
    /\ trade_log[2].reason = "End of backtest"


\* The run r executed alone, without any step of another instance in
\* between, until its loop is on row k at position p.
RECURSIVE run_alone(_, _, _)
run_alone(r, k, p) ==
    IF r.k = k /\ r.pc = p THEN r ELSE run_alone(run_step(r), k, p)

ExactMaxBars == 5

\* The variables a run of run_exact_backtest leaves alone.
exact_unused == <<trade_id, pending_signal, daily_log, trade_log,
                  action, exec_price, signal,
                  pending_stop_price, pending_stop_type,
                  pending_long_signal, pending_short_signal, config, runs,
                  parameters, strategy, result>>

\* ta_atr: true_range.ewm(alpha=1/length, adjust=False).mean() on row k.
RECURSIVE ta_atr(_, _)
ta_atr(k, length) ==
    LET alpha == Rat(1, length)
    IN  IF k = 0 THEN true_range(0)
        ELSE RAdd(RMul(RSub(R(1), alpha), ta_atr(k - 1, length)),
                  RMul(alpha, true_range(k)))

\* ta_highest(df['high'], length) and ta_lowest(df['low'], length) on row k:
\* NaN until the window holds length rows.
ta_highest(k, length) ==
    IF k < 0 \/ k + 1 < length THEN NaN ELSE RollMax(k, length)

ta_lowest(k, length) ==
    IF k < 0 \/ k + 1 < length THEN NaN ELSE RollMin(k, length)

\* The columns load_and_prepare_data adds, for row k; shift(1) reads row k-1.
exact_highest_high(k) == ta_highest(k - 1, strategy.lookback_period)

exact_lowest_low(k) == ta_lowest(k - 1, strategy.lookback_period)

exact_breakout_range(k) ==
    IF isna(exact_highest_high(k)) \/ isna(exact_lowest_low(k)) THEN NaN
    ELSE RSub(exact_highest_high(k), exact_lowest_low(k))

exact_upper_boundary(k) ==
    IF isna(exact_breakout_range(k)) THEN NaN
    ELSE RAdd(Row(k).open, RMul(exact_breakout_range(k), strategy.range_mult))

exact_lower_boundary(k) ==
    IF isna(exact_breakout_range(k)) THEN NaN
    ELSE RSub(Row(k).open, RMul(exact_breakout_range(k), strategy.range_mult))

exact_atr(k) == ta_atr(k, strategy.atr_period)

exact_go_long(k) ==
    IF isna(exact_upper_boundary(k)) THEN FALSE
    ELSE RGt(Row(k).high, exact_upper_boundary(k))

exact_go_short(k) ==
    IF isna(exact_lower_boundary(k)) THEN FALSE
    ELSE RLt(Row(k).low, exact_lower_boundary(k))

\* The strategy object as a record.
ExactSelf ==
    [position_size |-> position_size,
     position_avg_price |-> position_avg_price,
     equity |-> equity,
     trades |-> trades,
     current_bar_close |-> current_bar_close]

SetExactSelf(s) ==
    /\ position_size' = s.position_size
    /\ position_avg_price' = s.position_avg_price
    /\ equity' = s.equity
    /\ trades' = s.trades
    /\ current_bar_close' = s.current_bar_close

\* strategy_entry(id_name, direction) while the loop is on row k.
strategy_entry(s, k, id_name, direction) ==
    IF \/ (direction = "long" /\ RGt(s.position_size, Zero))
       \/ (direction = "short" /\ RLt(s.position_size, Zero))
    THEN s
    ELSE LET equity_to_use == RMul(s.equity, RDiv(qty_value, R(100)))
             qty == RDiv(equity_to_use, s.current_bar_close)
             trade_value == RMul(qty, s.current_bar_close)
             commission == RMul(trade_value, commission_rate)
             new_equity == RSub(s.equity, commission)
         IN  [s EXCEPT !.position_size = IF direction = "long" THEN qty
                                         ELSE RNeg(qty),
                       !.position_avg_price = s.current_bar_close,
                       !.equity = new_equity,
                       !.trades = Append(s.trades,
                           [date |-> k,
                            action |-> IF direction = "long" THEN "ENTRY_LONG"
                                       ELSE "ENTRY_SHORT",
                            price |-> s.current_bar_close,
                            size |-> qty,
                            commission |-> commission,
                            equity |-> new_equity,
                            comment |-> id_name])]

\* strategy_close(id_name, comment) while the loop is on row k.
strategy_close(s, k, id_name, comment) ==
    IF s.position_size = Zero THEN s
    ELSE LET pnl == IF RGt(s.position_size, Zero)
                    THEN RMul(RSub(s.current_bar_close, s.position_avg_price),
                              s.position_size)
                    ELSE RMul(RSub(s.position_avg_price, s.current_bar_close),
                              RAbs(s.position_size))
             trade_value == RMul(RAbs(s.position_size), s.current_bar_close)
             commission == RMul(trade_value, commission_rate)
             net_pnl == RSub(pnl, commission)
             new_equity == RAdd(s.equity, net_pnl)
         IN  [s EXCEPT !.equity = new_equity,
                       !.trades = Append(s.trades,
                           [date |-> k,
                            action |-> IF id_name = "LONG" THEN "CLOSE_LONG"
                                       ELSE IF id_name = "SHORT" THEN "CLOSE_SHORT"
                                       ELSE IF id_name = "Long" THEN "CLOSE_Long"
                                       ELSE IF id_name = "Short" THEN "CLOSE_Short"
                                       ELSE "CLOSE_Final",
                            price |-> s.current_bar_close,
                            size |-> RAbs(s.position_size),
                            pnl |-> pnl,
                            commission |-> commission,
                            net_pnl |-> net_pnl,
                            equity |-> new_equity,
                            comment |-> comment]),
                       !.position_size = Zero,
                       !.position_avg_price = Zero]

\* Whether strategy_exit(id_name, stop) returns True on row k.
exit_hit(s, k, stop) ==
    IF s.position_size = Zero \/ isna(stop) THEN FALSE
    ELSE IF RGt(s.position_size, Zero)
         THEN RLe(Row(k).low, stop)
         ELSE RGe(Row(k).high, stop)

\* strategy_exit(id_name, stop): the strategy object it leaves behind.
strategy_exit(s, k, id_name, stop) ==
    LET comment == IF id_name = "SL Long" THEN "Stop Loss: SL Long"
                   ELSE "Stop Loss: SL Short"
    IN  IF ~exit_hit(s, k, stop) THEN s
        ELSE IF RGt(s.position_size, Zero)
             THEN strategy_close([s EXCEPT !.current_bar_close = stop], k,
                                 "LONG", comment)
             ELSE strategy_close([s EXCEPT !.current_bar_close = stop], k,
                                 "SHORT", comment)

\* long_stop_price and short_stop_price of step 1 on row k; NaN (no call of
\* strategy_exit) when the row has no ATR or the position is flat.
exact_stop_price(s, k) ==
    IF isna(exact_atr(k)) \/ s.position_size = Zero THEN NaN
    ELSE IF RGt(s.position_size, Zero)
         THEN RSub(s.position_avg_price, RMul(exact_atr(k), strategy.stop_loss_mult))
         ELSE RAdd(s.position_avg_price, RMul(exact_atr(k), strategy.stop_loss_mult))

\* The id step 1 passes to strategy_exit.
exact_stop_id(s) == IF RGt(s.position_size, Zero) THEN "SL Long" ELSE "SL Short"

\* Step 2 of the loop body on row k, given the stop_hit of step 1.
\* (Faulty variant: the signals are processed on a bar that hit the stop.)
process_signals_after_stop(s, k, hit) ==
    IF exact_go_long(k)
    THEN strategy_entry(IF RLt(s.position_size, Zero)
                        THEN strategy_close(s, k, "Short", "Reverse to Long")
                        ELSE s,
                        k, "Long", "long")
    ELSE IF exact_go_short(k)
    THEN strategy_entry(IF RGt(s.position_size, Zero)
                        THEN strategy_close(s, k, "Long", "Reverse to Short")
                        ELSE s,
                        k, "Short", "short")
    ELSE s
process_signals(s, k, hit) ==
    IF hit THEN s
    ELSE IF exact_go_long(k)
    THEN strategy_entry(IF RLt(s.position_size, Zero)
                        THEN strategy_close(s, k, "Short", "Reverse to Long")
                        ELSE s,
                        k, "Long", "long")
    ELSE IF exact_go_short(k)
    THEN strategy_entry(IF RGt(s.position_size, Zero)
                        THEN strategy_close(s, k, "Long", "Reverse to Short")
                        ELSE s,
                        k, "Short", "short")
    ELSE s

\* for i, (date, row) in enumerate(df.iterrows()): the next row becomes the
\* current bar.
ExactNextRow ==
    /\ pc = "iterate"
    /\ Len(df) < ExactMaxBars
    /\ \E bar \in Bars :
         /\ df' = Append(df, bar)
         /\ current_bar_close' = bar.close
    /\ pc' = "exact_bar"
    /\ UNCHANGED <<position_size, position_avg_price, equity, trades,
                   daily_data, stop_hit>>
    /\ UNCHANGED exact_unused

\* Skip bars with insufficient data.
ExactSkip ==
    /\ pc = "exact_bar"
    /\ pc' = IF isna(exact_upper_boundary(i)) \/ isna(exact_lower_boundary(i))
             THEN "iterate" ELSE "exact_stop"
    /\ UNCHANGED <<df, position_size, position_avg_price, equity, trades,
                   daily_data, current_bar_close, stop_hit>>
    /\ UNCHANGED exact_unused

\* 1. Check and execute stop losses first.
ExactStop ==
    /\ pc = "exact_stop"
    /\ stop_hit' = exit_hit(ExactSelf, i, exact_stop_price(ExactSelf, i))
    /\ SetExactSelf(strategy_exit(ExactSelf, i, exact_stop_id(ExactSelf),
                                  exact_stop_price(ExactSelf, i)))
    /\ pc' = "exact_signals"
    /\ UNCHANGED <<df, daily_data>>
    /\ UNCHANGED exact_unused

\* 2. Process signals only if no stop loss was hit.
ExactSignals ==
    /\ pc = "exact_signals"
    /\ SetExactSelf(process_signals(ExactSelf, i, stop_hit))
    /\ pc' = "exact_daily"
    /\ UNCHANGED <<df, daily_data, stop_hit>>
    /\ UNCHANGED exact_unused

exact_unrealized_pnl ==
    IF position_size # Zero
    THEN IF RGt(position_size, Zero)
         THEN RMul(RSub(Row(i).close, position_avg_price), position_size)
         ELSE RMul(RSub(position_avg_price, Row(i).close), RAbs(position_size))
    ELSE Zero

\* Log daily data.
ExactDaily ==
    /\ pc = "exact_daily"
    /\ daily_data' = Append(daily_data,
           [date |-> i,
            open |-> Row(i).open,
            high |-> Row(i).high,
            low |-> Row(i).low,
            close |-> Row(i).close,
            upper_boundary |-> exact_upper_boundary(i),
            lower_boundary |-> exact_lower_boundary(i),
            go_long |-> exact_go_long(i),
            go_short |-> exact_go_short(i),
            position_size |-> position_size,
            position_avg_price |-> position_avg_price,
            equity |-> equity,
            unrealized_pnl |-> exact_unrealized_pnl,
            total_equity |-> RAdd(equity, exact_unrealized_pnl)])
    /\ pc' = "iterate"
    /\ UNCHANGED <<df, position_size, position_avg_price, equity, trades,
                   current_bar_close, stop_hit>>
    /\ UNCHANGED exact_unused

\* Final close at end date: the loop has ended after the last row.
ExactFinalClose ==
    /\ pc = "iterate"
    /\ Len(df) >= 1
    /\ SetExactSelf(IF position_size # Zero
                    THEN strategy_close(ExactSelf, i, "Final", "End of Date Range")
                    ELSE ExactSelf)
    /\ pc' = "done"
    /\ UNCHANGED <<df, daily_data, stop_hit>>
    /\ UNCHANGED exact_unused

ExactNext ==
    \/ ExactNextRow
    \/ ExactSkip
    \/ ExactStop
    \/ ExactSignals
    \/ ExactDaily
    \/ ExactFinalClose

ExactSpec == Init /\ [][ExactNext]_vars


\* The records of trades that open a position, that close one for a
\* reversal, and that close one at its stop.
IsExactEntry(r) == r.action \in {"ENTRY_LONG", "ENTRY_SHORT"}
IsExactReversalClose(r) == r.action \in {"CLOSE_Long", "CLOSE_Short"}
IsExactStop(r) == r.comment \in {"Stop Loss: SL Long", "Stop Loss: SL Short"}

(***************************************************************************)
(* C26: in run_exact_backtest a breakout detected on bar N produces no     *)
(* trade on bar N: every entry and every reversal close in trades is on a  *)
(* bar that follows a breakout bar of its direction, and its price is the  *)
(* open of the bar it is on.                                               *)
(***************************************************************************)
C26_ExactEntryAtNextOpen ==
    \A t \in DOMAIN trades :
        (IsExactEntry(trades[t]) \/ IsExactReversalClose(trades[t])) =>
            LET k == trades[t].date
                long == trades[t].action \in {"ENTRY_LONG", "CLOSE_Short"}
            IN  /\ k >= 1
                /\ IF long THEN exact_go_long(k - 1) ELSE exact_go_short(k - 1)
                /\ trades[t].price = Row(k).open


(***************************************************************************)
(* C27: a run of run_exact_backtest over n bars appends exactly n entries  *)
(* to daily_data: between two bars and at the return of the run daily_data *)
(* holds one entry per bar iterated, the warm-up bars included.            *)
(***************************************************************************)
C27_DailyDataPerBar ==
    pc \in {"iterate", "done"} =>
        /\ Len(daily_data) = Len(df)
        /\ \A n \in DOMAIN daily_data : daily_data[n].date = n - 1


(***************************************************************************)
(* C28: in run_exact_backtest a bar on which the stop-loss closed the      *)
(* position executes no entry and no reversal.  At the end of every bar    *)
(* and at the return of the run, a stop-loss record in trades is the only  *)
(* record of its bar, it follows the entry of the position it closes, its  *)
(* price is the stop price (the entry price minus, for a short plus, the   *)
(* ATR of the bar times stop_loss_mult), and the daily_data entry of the   *)
(* bar shows a flat position.                                              *)
(***************************************************************************)
C28_ExactStopBarEndsFlat ==
    pc \in {"iterate", "done"} =>
        \A t \in DOMAIN trades :
            IsExactStop(trades[t]) =>
                LET k == trades[t].date
                    distance == RMul(exact_atr(k), stop_loss_mult)
                IN  /\ \A u \in DOMAIN trades : u # t => trades[u].date # k
                    /\ t > 1
                    /\ IsExactEntry(trades[t - 1])
                    /\ trades[t].price =
                           IF trades[t].action = "CLOSE_LONG"
                           THEN RSub(trades[t - 1].price, distance)
                           ELSE RAdd(trades[t - 1].price, distance)
                    /\ \A n \in DOMAIN daily_data :
                           daily_data[n].date = k =>
                               daily_data[n].position_size = Zero
                    /\ k = i => position_size = Zero

\* A bar has ended whose stop-loss closed the position although the bar
\* broke out of a boundary: the stop-loss record is the last one of trades.
C28_Witness ==
    /\ pc = "iterate"
    /\ trades # <<>>
    /\ IsExactStop(trades[Len(trades)])
    /\ trades[Len(trades)].date = i
    /\ (exact_go_long(i) \/ exact_go_short(i))
    /\ daily_data[Len(daily_data)].date = i


\* The records of trades that STEP 2 of backtest_pine_script appends.
IsPineStop(r) == r.action \in {"STOP LOSS LONG", "STOP LOSS SHORT"}

(***************************************************************************)
(* C29: in backtest_pine_script a bar on which STEP 2 closed the position  *)
(* by stop-loss queues no signal: when the loop body has ended on a bar    *)
(* whose stop-loss record is the last record of trades, neither            *)
(* pending_long_signal nor pending_short_signal is set.                    *)
(***************************************************************************)
C29_PineNoSignalOnStopBar ==
    (/\ pc = "iterate"
     /\ trades # <<>>
     /\ IsPineStop(trades[Len(trades)])
     /\ trades[Len(trades)].date = Date(i))
        => (~pending_long_signal /\ ~pending_short_signal)

(***************************************************************************)
(* C30: in backtest_pine_script the stop price STEP 2 tests on a bar with  *)
(* an open position is computed from the ATR of that bar: it is the entry  *)
(* price minus (for a short position plus) atr[current bar] times          *)
(* stop_loss_mult.                                                         *)
(***************************************************************************)
C30_PineStopFromCurrentAtr ==
    (pc = "step2" /\ ~isna(pending_stop_price)) =>
        pending_stop_price =
            IF pending_stop_type = "LONG"
            THEN RSub(position_avg_price,
                      RMul(pine_calculate_atr(i), stop_loss_mult))
            ELSE RAdd(position_avg_price,
                      RMul(pine_calculate_atr(i), stop_loss_mult))


\* A record of trades that closes a position of backtest_pine_script.
IsPineClose(r) ==
    r.action \in {"CLOSE SHORT", "CLOSE LONG", "STOP LOSS LONG", "STOP LOSS SHORT",
                  "CLOSE FINAL"}

\* The realized profit of close record t of trades, read from the record
\* and from the entry record before it.
PineRealizedPnl(t) ==
    IF trades[t - 1].action = "ENTRY LONG"
    THEN RMul(trades[t].size, RSub(trades[t].price, trades[t - 1].price))
    ELSE RMul(trades[t].size, RSub(trades[t - 1].price, trades[t].price))

(***************************************************************************)
(* C31: for every close performed by backtest_pine_script (reversal close  *)
(* at the open, stop-loss, forced close at the end of the series) the      *)
(* equity after the close is the equity before it plus the realized profit *)
(* minus the exit commission |position_size| * exit_price *                *)
(* commission_rate.                                                        *)
(***************************************************************************)
C31_PineCloseLedger ==
    \A t \in 2..Len(trades) :
        IsPineClose(trades[t])
            => trades[t].equity =
                   RSub(RAdd(trades[t - 1].equity, PineRealizedPnl(t)),
                        RMul(RMul(RAbs(trades[t].size), trades[t].price),
                             commission_rate))


(***************************************************************************)
(* C32: the true range of bar k is max(high[k] - low[k],                   *)
(* |high[k] - close[k-1]|, |low[k] - close[k-1]|) for k >= 1 and is        *)
(* undefined at k = 0, so that calculate_atr derives no ATR value from     *)
(* bar 0 alone: both columns are NaN on row 0.                             *)
(***************************************************************************)
C32_NoAtrFromBarZero ==
    \A k \in 0..(Len(df) - 1) :
        IF k = 0
        THEN isna(true_range(0)) /\ isna(calculate_atr(0))
        ELSE true_range(k) =
                 RMax(RMax(RSub(Row(k).high, Row(k).low),
                           RAbs(RSub(Row(k).high, Row(k - 1).close))),
                      RAbs(RSub(Row(k).low, Row(k - 1).close)))


\* The entry records of trade_log logged on bar k.
EntriesOnBar(k) ==
    {t \in 1..Len(trade_log) : IsEntry(trade_log[t]) /\ trade_log[t].bar_index = k}

(***************************************************************************)
(* C33: CorrectTimingStrategy holds at most one pending signal and it      *)
(* lives for exactly one bar.  After step 1 of every bar pending_signal is *)
(* None, so the detection of the bar overwrites nothing; an entry is       *)
(* logged on bar N+1, at its open, exactly when a signal was detected on   *)
(* bar N; and a signal detected on the last bar is executed at the end of  *)
(* the series, at the last close.                                          *)
(***************************************************************************)
C33_PendingLivesOneBar ==
    /\ pc \in {"check_stop", "detect"} => pending_signal = "None"
    /\ pc = "check_stop"
           => /\ EntriesOnBar(i) # {}
                    <=> (i >= 1 /\ daily_log[i].pending_signal # "None")
              /\ \A t \in EntriesOnBar(i) :
                     /\ trade_log[t].execution_price = Row(i).open
                     /\ trade_log[t].action
                            = IF daily_log[i].pending_signal \in LongSignals
                              THEN "LONG" ELSE "SHORT"
              /\ Cardinality(EntriesOnBar(i)) <= 1
    /\ pc \in {"final_close", "done"} => pending_signal = "None"
    /\ pc = "final_close" /\ LastDaily.pending_signal # "None"
           => /\ IsEntry(trade_log[Len(trade_log)])
              /\ trade_log[Len(trade_log)].bar_index = i
              /\ trade_log[Len(trade_log)].execution_price = Row(i).close

\* A signal detected on the bar before was executed at the open of this
\* bar and nothing is pending after step 1.
C33_Witness ==
    /\ pc = "check_stop"
    /\ i >= 1
    /\ daily_log[i].pending_signal # "None"
    /\ EntriesOnBar(i) # {}
    /\ pending_signal = "None"

\* A signal detected on the last bar was executed at the end of the series.
C33_WitnessFinal ==
    /\ pc = "final_close"
    /\ LastDaily.pending_signal # "None"
    /\ IsEntry(trade_log[Len(trade_log)])


(***************************************************************************)
(* C34: the position direction matches the last entry.  While the last     *)
(* record of trade_log is a LONG entry position_size > 0, while it is a    *)
(* SHORT entry position_size < 0, and the size the entry recorded is not   *)
(* negative, whatever equity the entry was sized from.                     *)
(***************************************************************************)
C34_DirectionMatchesEntry ==
    Len(trade_log) >= 1 /\ IsEntry(trade_log[Len(trade_log)])
        => LET r == trade_log[Len(trade_log)]
           IN  /\ RGe(r.position_size, Zero)
               /\ r.action = "LONG" => RGt(position_size, Zero)
               /\ r.action = "SHORT" => RLt(position_size, Zero)


\* The sum of net_pnl over the first n records of trade_log.
RECURSIVE SumNetPnl(_)
SumNetPnl(n) ==
    IF n = 0 THEN Zero ELSE RAdd(SumNetPnl(n - 1), trade_log[n].net_pnl)

(***************************************************************************)
(* C35: at every point of a CorrectTimingStrategy run, equity is           *)
(* initial_capital plus the sum of net_pnl over all records of trade_log,  *)
(* and equity equals the equity_after of the most recent record            *)
(* (initial_capital while the log is empty).                               *)
(***************************************************************************)
C35_EquityIsLedgerSum ==
    /\ equity = RAdd(initial_capital, SumNetPnl(Len(trade_log)))
    /\ equity = EquityBefore(Len(trade_log) + 1)

\* The run has ended with a close whose net_pnl moved the equity.
C35_Witness ==
    /\ pc = "done"
    /\ Len(trade_log) >= 3
    /\ \E t \in 1..Len(trade_log) :
           IsClose(trade_log[t]) /\ trade_log[t].pnl # Zero
    /\ equity # initial_capital


BothFire(k) ==
    /\ ~isna(upper_boundary(k))
    /\ ~isna(lower_boundary(k))
    /\ go_long(k)
    /\ go_short(k)

(***************************************************************************)
(* C37: in detect_signals, when both breakouts fire on the same bar the    *)
(* long side has priority and the short breakout is ignored: the signal    *)
(* is REVERSE_TO_LONG if the position is short, LONG if it is flat and     *)
(* None if it is long, and the signal queued for the next bar is never a   *)
(* short-side one.                                                         *)
(***************************************************************************)
C37_LongHasPriority ==
    (pc = "daily" /\ BothFire(i)) =>
        /\ signal = IF RLt(position_size, Zero) THEN "REVERSE_TO_LONG"
                    ELSE IF position_size = Zero THEN "LONG"
                    ELSE "None"
        /\ pending_signal = signal

\* Both breakouts have fired while the position is short.
C37_Witness ==
    /\ pc = "daily"
    /\ BothFire(i)
    /\ RLt(position_size, Zero)
    /\ signal = "REVERSE_TO_LONG"

\* Both breakouts have fired while the position is long: no signal.
C37_WitnessLong ==
    /\ pc = "daily"
    /\ BothFire(i)
    /\ RGt(position_size, Zero)
    /\ signal = "None"


\* The entry record that close record t of trade_log closes: the last entry
\* record before it.
EntryOf(t) ==
    CHOOSE e \in 1..(t - 1) :
        /\ IsEntry(trade_log[e])
        /\ \A m \in (e + 1)..(t - 1) : ~IsEntry(trade_log[m])

(***************************************************************************)
(* C38: the trade log returned by CorrectTimingStrategy is ordered:        *)
(* bar_index is non-decreasing along trade_log, the trade_id values are    *)
(* 1, 2, 3, ... without gaps or repeats, and every close record has a      *)
(* bar_index not smaller than that of the entry it closes.                 *)
(***************************************************************************)
C38_TradeLogOrdered ==
    pc = "done" =>
        /\ \A t \in 1..Len(trade_log) : trade_log[t].trade_id = t
        /\ trade_id = Len(trade_log)
        /\ \A t \in 2..Len(trade_log) :
               trade_log[t - 1].bar_index <= trade_log[t].bar_index
        /\ \A t \in 1..Len(trade_log) :
               IsClose(trade_log[t]) =>
                   /\ \E e \in 1..(t - 1) : IsEntry(trade_log[e])
                   /\ trade_log[EntryOf(t)].bar_index <= trade_log[t].bar_index

\* The returned log holds a close logged on a later bar than its entry and
\* a reversal on one bar.
C38_Witness ==
    /\ pc = "done"
    /\ Len(trade_log) >= 4
    /\ \E t \in 2..Len(trade_log) :
           /\ IsClose(trade_log[t])
           /\ trade_log[EntryOf(t)].bar_index < trade_log[t].bar_index


(***************************************************************************)
(* C39: on bars with low <= open <= high, every stop-loss exit logged by   *)
(* check_stop_loss has an execution price inside the [low, high] range of  *)
(* the bar it is logged on, also when the bar gaps past the stop.          *)
(***************************************************************************)
C39_StopFillInsideBar ==
    \A t \in 1..Len(trade_log) :
        LET r == trade_log[t]
            bar == Row(r.bar_index)
        IN  (IsStop(r) /\ RLe(bar.low, bar.open) /\ RLe(bar.open, bar.high))
                => RLe(bar.low, r.execution_price) /\ RLe(r.execution_price, bar.high)


(***************************************************************************)
(* C39 as the code has it: every stop-loss exit is logged at the computed  *)
(* stop price, the entry price of the position minus (long) or plus        *)
(* (short) stop_loss_mult times the ATR of the bar it is logged on; that   *)
(* price is not below the bar's low for a long exit and not above the      *)
(* bar's high for a short exit, and it is not moved into the bar's range   *)
(* when the bar gaps past the stop.                                        *)
(***************************************************************************)
C39_StopFillAtStopPrice ==
    pc = "done" =>
        \A t \in 2..Len(trade_log) :
            LET r == trade_log[t]
                k == r.bar_index
                distance == RMul(calculate_atr(k), stop_loss_mult)
            IN  /\ r.reason = "SL Long"
                       => /\ r.execution_price
                                 = RSub(trade_log[t - 1].execution_price, distance)
                          /\ RLe(Row(k).low, r.execution_price)
                /\ r.reason = "SL Short"
                       => /\ r.execution_price
                                 = RAdd(trade_log[t - 1].execution_price, distance)
                          /\ RGe(Row(k).high, r.execution_price)

\* A long position was stopped out on a bar that gapped below the stop: the
\* fill is above the bar's high.
C39_Witness ==
    /\ pc = "done"
    /\ \E t \in 2..Len(trade_log) :
           /\ trade_log[t].reason = "SL Long"
           /\ RGt(trade_log[t].execution_price, Row(trade_log[t].bar_index).high)


(***************************************************************************)
(* BacktestService.run_backtest                                            *)
(* (src/btc-strategy-web/backend/app/services/backtest_service.py): it     *)
(* builds an ExactPineScriptStrategy, copies parameters onto it, runs      *)
(* run_exact_backtest and returns a BacktestResult whose parameters field  *)
(* is StrategyParameters built from parameters.  ServiceSpec is one call   *)
(* of it; the values of the parameters stand, at the scale of the model,   *)
(* for values inside the ranges StrategyParameters accepts.                *)
(***************************************************************************)
\* The defaults of parameters.get in run_backtest and of the fields of
\* StrategyParameters: 25, 0.4, 2.0 and 14 (14 is atr_period at its bound).
default_lookback_period == lookback_period + 1
default_range_mult == Rat(2, 5)
default_stop_loss_mult == R(2)
default_atr_period == atr_period

\* parameters.get(key, default).
get(d, key, default) == IF d[key] = <<>> THEN default ELSE d[key][1]

\* StrategyParameters of the dict: the given values, the field defaults
\* for the keys that are missing.
StrategyParameters(d) ==
    [lookback_period |-> get(d, "lookback_period", default_lookback_period),
     range_mult |-> get(d, "range_mult", default_range_mult),
     stop_loss_mult |-> get(d, "stop_loss_mult", default_stop_loss_mult),
     atr_period |-> get(d, "atr_period", default_atr_period)]

\* The dicts a caller passes: the three multipliers and periods of the
\* breakout all given or all missing, atr_period missing, equal to the
\* attribute of a new strategy or different from it.
ParameterDicts ==
    { [lookback_period |-> IF given THEN <<lookback_period>> ELSE <<>>,
       range_mult |-> IF given THEN <<range_mult>> ELSE <<>>,
       stop_loss_mult |-> IF given THEN <<stop_loss_mult>> ELSE <<>>,
       atr_period |-> a] :
          given \in BOOLEAN, a \in {<<>>, <<atr_period>>, <<atr_period - 1>>} }

ServiceInit ==
    /\ parameters \in ParameterDicts
    /\ pc = "run_backtest"
    /\ strategy = ExactPineScriptStrategy
    /\ result = <<>>
    /\ df = <<>>
    /\ position_size = Zero
    /\ position_avg_price = Zero
    /\ equity = initial_capital
    /\ trade_id = 0
    /\ pending_signal = "None"
    /\ daily_log = <<>>
    /\ trade_log = <<>>
    /\ action = "HOLD"
    /\ exec_price = NaN
    /\ stop_hit = FALSE
    /\ signal = "None"
    /\ trades = <<>>
    /\ pending_stop_price = NaN
    /\ pending_stop_type = "None"
    /\ pending_long_signal = FALSE
    /\ pending_short_signal = FALSE
    /\ config = [lookback_period |-> lookback_period, atr_period |-> atr_period]
    /\ runs = <<>>
    /\ daily_data = <<>>
    /\ current_bar_close = NaN

\* Initialize strategy with parameters first: three attributes are set.
RunBacktest ==
    /\ pc = "run_backtest"
    /\ strategy' =
           [strategy EXCEPT
               !.lookback_period = get(parameters, "lookback_period",
                                       default_lookback_period),
               !.range_mult = get(parameters, "range_mult", default_range_mult),
               !.stop_loss_mult = get(parameters, "stop_loss_mult",
                                      default_stop_loss_mult)]
    /\ pc' = "iterate"
    /\ UNCHANGED <<df, position_size, position_avg_price, equity, trades,
                   daily_data, current_bar_close, stop_hit, parameters, result>>
    /\ UNCHANGED <<trade_id, pending_signal, daily_log, trade_log,
                   action, exec_price, signal,
                   pending_stop_price, pending_stop_type,
                   pending_long_signal, pending_short_signal, config, runs>>

\* Generate results: the BacktestResult run_backtest returns.
ReturnResult ==
    /\ pc = "done"
    /\ result' = <<[parameters |-> StrategyParameters(parameters)]>>
    /\ pc' = "returned"
    /\ UNCHANGED <<df, position_size, position_avg_price, equity, trades,
                   daily_data, current_bar_close, stop_hit, parameters, strategy>>
    /\ UNCHANGED <<trade_id, pending_signal, daily_log, trade_log,
                   action, exec_price, signal,
                   pending_stop_price, pending_stop_type,
                   pending_long_signal, pending_short_signal, config, runs>>

ServiceNext ==
    \/ RunBacktest
    \/ ExactNext
    \/ ReturnResult

ServiceSpec == ServiceInit /\ [][ServiceNext]_vars

(***************************************************************************)
(* C40: run_backtest configures the strategy it runs with every parameter  *)
(* it is given: the lookback_period, range_mult, stop_loss_mult and        *)
(* atr_period recorded in the parameters of the returned BacktestResult    *)
(* are the attributes of the strategy the backtest was computed with.      *)
(***************************************************************************)
C40_RecordedParametersWereUsed ==
    pc = "returned" =>
        /\ result[1].parameters.lookback_period = strategy.lookback_period
        /\ result[1].parameters.range_mult = strategy.range_mult
        /\ result[1].parameters.stop_loss_mult = strategy.stop_loss_mult
        /\ result[1].parameters.atr_period = strategy.atr_period

=============================================================================
